---- MODULE Spec2Model ----
(***************************************************************************)
(* Model of the AI Scrum Master agent service: the chunk pipeline and the  *)
(* final aggregator of main.py, and the MeetingAgent of bot_service.py.    *)
(*                                                                         *)
(* Strings are modelled as sequences of tokens (a word, a colon, an        *)
(* emphasis mark, ...); whitespace between tokens is implicit, so strip()  *)
(* is the identity on a token sequence and an empty string is <<>>.        *)
(***************************************************************************)
EXTENDS Integers, Sequences, FiniteSets, TLC

\* ------------------------------------------------------------------ bounds
MaxCalls == 3
MaxScans == 3
MaxLines == 3
MaxPolls == 6
MaxMeetings == 2

\* --------------------------------------------------------- program constants
QUESTION_QUOTA == 2
T_CHUNK == 300
N_CHUNK == 10
\* Seconds that may pass between two loop tests of the parsing thread.
TickDeltas == {2, 150}

VARIABLES
    ai_configured,      \* main.py: module flag set once at import
    session_history,    \* main.py: session_id -> session data, or NoSession
    calls,              \* in-flight process_transcript_chunk requests
    active_sessions,    \* main.py: the ids that map to a MeetingAgent
    start_response,     \* what start_agent answered last
    stop_response,      \* what stop_agent answered last
    status_response,    \* what get_agent_status answered last
    status,             \* MeetingAgent.status ("none": no agent constructed)
    error_message,      \* MeetingAgent.error_message
    should_stop,        \* MeetingAgent.should_stop
    driver,             \* MeetingAgent.driver: "none", "alive" or "dead"
    seen_captions,      \* MeetingAgent.seen_captions
    start_pc,           \* where run_agent_session / MeetingAgent.start stands
    stop_pc,            \* where the running stop_agent / MeetingAgent.stop stands
    thread_pc,          \* where the _run_visual_parsing thread stands
    caption_buffer,     \* local of _run_visual_parsing
    elapsed,            \* current_time - last_send_time of _run_visual_parsing
    scans,              \* number of caption scans made
    backend_log,        \* requests the capture side has sent to the backend
    stop_mark,          \* history: the pending buffer and the log length when stop was issued
    final,              \* the process_final_transcript request
    telegram_token,     \* main.py: whether TELEGRAM_BOT_TOKEN is set
    telegram_posts,     \* number of sendMessage requests made
    poller,             \* bot.py: the poll_agent_status task of one user
    bot                 \* bot.py: one user's FSM state, session entry and poll tasks

chunkVars == <<ai_configured, session_history, calls>>
agentVars == <<status, error_message, should_stop, driver, seen_captions>>
taskVars == <<start_pc, stop_pc, thread_pc, caption_buffer, elapsed, scans>>
apiVars == <<active_sessions, start_response, stop_response, status_response>>
vars == <<ai_configured, session_history, calls, active_sessions, start_response,
          stop_response, status_response, status, error_message, should_stop, driver, seen_captions,
          start_pc, stop_pc, thread_pc, caption_buffer, elapsed, scans, backend_log,
          stop_mark, final, telegram_token, telegram_posts, poller, bot>>
finalVars == <<final, telegram_token, telegram_posts>>

Min(a, b) == IF a <= b THEN a ELSE b

\* ------------------------------------------------------------ value domains
SessionIds == {"s1"}
\* An id no agent was started under, and the ids a request may carry.
UnknownIds == {"s9"}
RequestIds == SessionIds \cup UnknownIds
CallIds == 1..MaxCalls
NoSession == [absent |-> TRUE]

\* Chunk texts as the capture side formats them: "[HH:MM:SS] speaker: text".
ChunkTexts == { <<"[t]", "Ann", ":", "hi">>, <<"[t]", "Unknown", ":", "ok">> }
\* What the clean service may answer.
CleanTexts == { <<"Ann", ":", "hi">>, <<"ok">> }
Words == {"Ann", "Unknown", "hi", "ok", "Bob"}

\* re.findall(r'(\w+):\s', cleaned_text): the words directly before a colon.
Speakers(text) ==
    { text[i] : i \in { j \in 1..(Len(text) - 1) : text[j] \in Words /\ text[j + 1] = ":" } }

NewSessionData ==
    [chunks |-> <<>>, questions_asked |-> 0, participants |-> {}, status |-> "none",
     completed_at |-> FALSE]

\* ------------------------------------------------- clean_text_with_openrouter
\* The outcome of the HTTP call made by clean_text_with_openrouter.
CleanOutcomes ==
    [kind : {"ok"}, content : CleanTexts] \cup
    [kind : {"http_error", "exception"}, content : {<<>>}]

clean_text_with_openrouter_result_Content(text, outcome) == outcome.content

clean_text_with_openrouter_result(text, outcome) ==
    IF outcome.kind = "ok" THEN outcome.content ELSE text

\* --------------------------------------------- analyze_context_with_openrouter
\* A line of the gate's answer: its prefix, whether the word for yes occurs in it, and the
\* text after the prefix.
GateLines ==
    { [head |-> "NEED", yes |-> TRUE,  rest |-> <<"Da">>],
      [head |-> "NEED", yes |-> FALSE, rest |-> <<"Net">>],
      [head |-> "Q",    yes |-> FALSE, rest |-> <<"who">>],
      [head |-> "Q",    yes |-> FALSE, rest |-> <<>>] }

GateReplies ==
    { <<>> } \cup { <<l>> : l \in GateLines } \cup
    { <<a, b>> : a \in { l \in GateLines : l.head = "NEED" },
                 b \in { l \in GateLines : l.head = "Q" } }

GateOutcomes ==
    [kind : {"ok"}, content : GateReplies] \cup
    [kind : {"http_error", "exception"}, content : {<<>>}]

RECURSIVE ParseGateLines(_, _, _)
ParseGateLines(lines, needs_question, question_text) ==
    IF lines = <<>> THEN [needs_question |-> needs_question, question_text |-> question_text]
    ELSE LET line == Head(lines) IN
         IF line.head = "NEED"
         THEN ParseGateLines(Tail(lines), line.yes, question_text)
         ELSE IF line.head = "Q"
         THEN ParseGateLines(Tail(lines), needs_question, line.rest)
         ELSE ParseGateLines(Tail(lines), needs_question, question_text)

NoQuestion == [needs_question |-> FALSE, question_text |-> <<>>]

\* The early returns of analyze_context_with_openrouter: TRUE when the gate
\* service is not called at all.
QuotaReached_Never(questions_asked) == FALSE

QuotaReached_Above(questions_asked) == questions_asked > QUESTION_QUOTA

QuotaReached(questions_asked) == questions_asked >= QUESTION_QUOTA

analyze_context_skips(questions_asked) ==
    ~ai_configured \/ QuotaReached(questions_asked)

analyze_context_result_Asks(outcome) ==
    [needs_question |-> TRUE, question_text |-> <<"who">>]

analyze_context_result(outcome) ==
    IF outcome.kind = "ok" THEN ParseGateLines(outcome.content, FALSE, <<>>)
    ELSE NoQuestion

\* --------------------------------------------------- process_transcript_chunk
IdleCall ==
    [pc |-> "idle", sid |-> "s1", text |-> <<>>, cleaned |-> <<>>,
     action |-> "none", question_text |-> <<>>, context |-> <<>>]

\* session_history[-3:] (line 175)
CONTEXT_CHUNKS == 3
LastN(seq, n) == SubSeq(seq, Len(seq) - Min(n, Len(seq)) + 1, Len(seq))

\* Lines 622 and 175: the context put into the gate's prompt, taken from the
\* cleaned texts of the chunks list as it is when the gate is called.
GateContext(chunks) ==
    LastN([i \in 1..Len(chunks) |-> chunks[i].cleaned], CONTEXT_CHUNKS)

EnsureSession(hist, sid) ==
    IF hist[sid] = NoSession THEN [hist EXCEPT ![sid] = NewSessionData] ELSE hist

StoreChunk(sd, c, text, cleaned) ==
    [sd EXCEPT !.chunks = Append(@, [timestamp |-> c, original |-> text, cleaned |-> cleaned]),
               !.participants = @ \cup Speakers(cleaned)]

Decide_CountsEveryAnswer(c, sid, answer) ==
    /\ session_history' = [session_history EXCEPT ![sid].questions_asked = @ + 1]
    /\ calls' = IF answer.needs_question /\ answer.question_text # <<>>
                THEN [calls EXCEPT ![c].pc = "done", ![c].action = "ask_question",
                                   ![c].question_text = answer.question_text]
                ELSE [calls EXCEPT ![c].pc = "done", ![c].action = "continue"]
\* Lines 629-641: the decision taken from the gate's answer.
Decide(c, sid, answer) ==
    IF answer.needs_question /\ answer.question_text # <<>>
    THEN /\ session_history' = [session_history EXCEPT ![sid].questions_asked = @ + 1]
         /\ calls' = [calls EXCEPT ![c].pc = "done", ![c].action = "ask_question",
                                   ![c].question_text = answer.question_text]
    ELSE /\ calls' = [calls EXCEPT ![c].pc = "done", ![c].action = "continue"]
         /\ UNCHANGED session_history

\* Lines 609-627, run when the cleaned text is known: the chunk is stored and
\* the gate is either skipped (early return) or called (the handler suspends).
AfterClean(c, sid, text, cleaned, hist, cl) ==
    LET hist2 == [hist EXCEPT ![sid] = StoreChunk(@, c, text, cleaned)] IN
    IF analyze_context_skips(hist2[sid].questions_asked)
    THEN /\ session_history' = hist2
         /\ calls' = [cl EXCEPT ![c].pc = "done", ![c].cleaned = cleaned,
                                ![c].action = "continue"]
    ELSE /\ session_history' = hist2
         /\ calls' = [cl EXCEPT ![c].pc = "gate", ![c].cleaned = cleaned,
                                ![c].context = GateContext(hist2[sid].chunks)]

\* The request arrives: lines 593-607. With the service not configured the
\* clean and gate calls return without suspending and the handler runs through.
ProcessChunkStart(c, sid, text) ==
    /\ calls[c].pc = "idle"
    /\ \A d \in CallIds : d < c => calls[d].pc # "idle"
    /\ LET hist == EnsureSession(session_history, sid)
           cl == [calls EXCEPT ![c].sid = sid, ![c].text = text]
       IN IF ai_configured
          THEN /\ session_history' = hist
               /\ calls' = [cl EXCEPT ![c].pc = "clean"]
          ELSE AfterClean(c, sid, text, text, hist, cl)
    /\ UNCHANGED <<ai_configured, apiVars, agentVars, taskVars, backend_log, stop_mark, finalVars, poller, bot>>

\* The clean call returns (line 607) and the handler runs on to the gate call.
ProcessChunkCleaned(c, outcome) ==
    /\ calls[c].pc = "clean"
    /\ AfterClean(c, calls[c].sid, calls[c].text,
                  clean_text_with_openrouter_result(calls[c].text, outcome),
                  session_history, calls)
    /\ UNCHANGED <<ai_configured, apiVars, agentVars, taskVars, backend_log, stop_mark, finalVars, poller, bot>>

\* The gate call returns (line 623) and the handler answers.
ProcessChunkGated(c, outcome) ==
    /\ calls[c].pc = "gate"
    /\ Decide(c, calls[c].sid, analyze_context_result(outcome))
    /\ UNCHANGED <<ai_configured, apiVars, agentVars, taskVars, backend_log, stop_mark, finalVars, poller, bot>>

\* ============================================================ bot_service.py

UnknownSpeaker == <<"Unknown">>

\* A caption element found in the page: its text and the speaker name found
\* in its parent element ("Method 1"), UnknownSpeaker when there is none.
Element(text, dom_speaker) == [text |-> text, dom_speaker |-> dom_speaker]

DigitTokens == {"12", "30"}
\* Tokens that the username patterns of "Method 3" match: ASCII words of three
\* or more characters that are not in the excluded list.
UsernameTokens == {"bob", "Ann", "Unknown"}

RECURSIVE FirstIndex(_, _, _)
FirstIndex(text, tokens, i) ==
    IF i > Len(text) THEN 0
    ELSE IF text[i] \in tokens THEN i
    ELSE FirstIndex(text, tokens, i + 1)

\* Lines 476-537: the caption recorded for an element whose text is new.
ParseElement(el) ==
    LET colon == FirstIndex(el.text, {":"}, 1)
        before == SubSeq(el.text, 1, colon - 1)
        after == SubSeq(el.text, colon + 1, Len(el.text))
        split == /\ el.dom_speaker = UnknownSpeaker
                 /\ colon > 0
                 /\ \A i \in 1..Len(before) : before[i] \notin DigitTokens
        user == FirstIndex(el.text, UsernameTokens, 1)
    IN  IF el.dom_speaker # UnknownSpeaker
        THEN [speaker |-> el.dom_speaker, text |-> el.text]
        ELSE IF split
        THEN [speaker |-> before, text |-> after]
        ELSE IF user > 0
        THEN [speaker |-> <<el.text[user]>>, text |-> el.text]
        ELSE [speaker |-> UnknownSpeaker, text |-> el.text]

\* The key under which a recorded caption is stored in seen_captions (line 540).
SeenKey(el, caption) == caption.text

\* Lines 470-544: the elements of one selector, in page order.
RECURSIVE ParseElements(_, _, _)
ParseElements(elements, seen, new_captions) ==
    IF elements = <<>> THEN [seen |-> seen, new_captions |-> new_captions]
    ELSE LET el == Head(elements) IN
         IF el.text # <<>> /\ el.text \notin seen
         THEN LET caption == ParseElement(el) IN
              ParseElements(Tail(elements), seen \cup {SeenKey(el, caption)},
                            Append(new_captions, caption))
         ELSE ParseElements(Tail(elements), seen, new_captions)

\* Lines 465-552: the selectors are tried in order until one yields a caption.
RECURSIVE ParseSelectors(_, _)
ParseSelectors(screen, seen) ==
    IF screen = <<>> THEN [seen |-> seen, new_captions |-> <<>>]
    ELSE LET r == ParseElements(Head(screen), seen, <<>>) IN
         IF r.new_captions # <<>> THEN r ELSE ParseSelectors(Tail(screen), r.seen)

\* _parse_current_captions: with the browser gone every selector raises and
\* is skipped.
ParseCurrentCaptions(screen, seen, drv) ==
    IF drv = "alive" THEN ParseSelectors(screen, seen)
    ELSE [seen |-> seen, new_captions |-> <<>>]

E_hi == Element(<<"hi">>, UnknownSpeaker)
E_ann_hi == Element(<<"Ann", ":", "hi">>, UnknownSpeaker)
E_ann_hi_dom == Element(<<"Ann", ":", "hi">>, <<"Ann">>)
E_time == Element(<<"12", ":", "30">>, UnknownSpeaker)
E_bob == Element(<<"bob", "yo">>, UnknownSpeaker)

\* A page on which one selector matches N_CHUNK elements with different texts.
E_burst == [i \in 1..N_CHUNK |-> Element(<<"w", ToString(i)>>, UnknownSpeaker)]

\* What a scan may find in the page: per selector, the elements it matches.
Screens ==
    { <<>>,
      << <<E_hi>> >>,
      << <<E_ann_hi>> >>,
      << <<E_ann_hi_dom, E_hi>> >>,
      << <<E_hi>>, <<E_bob, E_time>> >>,
      << E_burst >> }

ChunkEntry(captions, ok) ==
    [kind |-> "chunk", captions |-> captions, transcript |-> {}, ok |-> ok]
FinalEntry(transcript, ok) ==
    [kind |-> "final", captions |-> <<>>, transcript |-> transcript, ok |-> ok]

\* _send_captions_to_backend: one POST to the chunk endpoint; nothing is sent
\* for an empty chunk. ok tells whether the request was answered with 200.
\* The text_chunk built from the captions (lines 581-592): one line
\* "[time] speaker: text" per caption, in buffer order.
TextChunk(captions) ==
    [i \in 1..Len(captions) |->
        <<"[t]">> \o captions[i].speaker \o <<":">> \o captions[i].text]

SendCaptionsToBackend_Always(log, captions, ok) ==
    Append(log, ChunkEntry(captions, ok))
SendCaptionsToBackend(log, captions, ok) ==
    IF captions = <<>> THEN log ELSE Append(log, ChunkEntry(captions, ok))

\* _send_final_transcript: one POST to the final endpoint unless nothing was seen.
SendFinalTranscript(log, seen, ok) ==
    IF seen = {} THEN log ELSE Append(log, FinalEntry(seen, ok))

LoopFree == stop_pc = "idle"

\* ------------------------------------------------------ main.py: start_agent
\* 'https://meet.google.com/' (line 503), a URL being a sequence of tokens.
MEET_PREFIX == <<"https://", "meet.google.com", "/">>

\* The meeting_url values a request may carry: empty, a meeting link, the
\* bare prefix, the link without TLS, the host without the slash, and a
\* foreign link that names the meeting host in its query.
MeetingUrls ==
    { <<>>,
      MEET_PREFIX \o <<"abc-defg-hij">>,
      MEET_PREFIX,
      <<"http://", "meet.google.com", "/", "abc-defg-hij">>,
      <<"https://", "meet.google.com">>,
      <<"https://", "example.org", "/", "?", "https://", "meet.google.com", "/">> }

ValidMeetingUrl_Contains(url) ==
    \E i \in 1..Len(url) : url[i] = "meet.google.com"

\* Line 503, negated: request.meeting_url and
\* request.meeting_url.startswith('https://meet.google.com/')
ValidMeetingUrl(url) ==
    /\ url # <<>>
    /\ Len(url) >= Len(MEET_PREFIX)
    /\ \A i \in 1..Len(MEET_PREFIX) : url[i] = MEET_PREFIX[i]

\* The session id is a fresh uuid4: it is in neither map.
StartAgent(sid, url) ==
    /\ LoopFree
    /\ status = "none"
    /\ sid \notin active_sessions /\ session_history[sid] = NoSession
    /\ IF ValidMeetingUrl(url)
       THEN /\ status' = "initializing"
            /\ active_sessions' = active_sessions \cup {sid}
            /\ session_history' =
                   [session_history EXCEPT ![sid] = [NewSessionData EXCEPT !.status = "active"]]
            /\ start_pc' = "scheduled"
            /\ start_response' = "started"
       ELSE /\ start_response' = "error500"
            /\ UNCHANGED <<status, active_sessions, session_history, start_pc>>
    /\ UNCHANGED <<ai_configured, calls, stop_response, status_response, error_message, should_stop, driver,
                   seen_captions, stop_pc, thread_pc, caption_buffer, elapsed, scans,
                   backend_log, stop_mark, finalVars, poller, bot>>

\* ------------------------------- run_agent_session and MeetingAgent.start
\* The exception path of start (lines 99-103) and of run_agent_session
\* (lines 737-740).
StartRaises ==
    /\ status' = "error"
    /\ error_message' = "msg"
    /\ start_pc' = "raised"

\* The background task starts: status "starting", the driver is created and
\* the join flow runs to its first sleep.
RunAgentSession(driver_ok, get_ok) ==
    /\ LoopFree
    /\ start_pc = "scheduled"
    /\ IF ~driver_ok
       THEN StartRaises /\ UNCHANGED driver
       ELSE IF ~get_ok
       THEN StartRaises /\ driver' = "alive"
       ELSE /\ status' = "starting"
            /\ driver' = "alive"
            /\ start_pc' = "joining"
            /\ UNCHANGED error_message
    /\ UNCHANGED <<chunkVars, apiVars, should_stop, seen_captions, stop_pc, thread_pc,
                   caption_buffer, elapsed, scans, backend_log, stop_mark, finalVars, poller, bot>>

\* _join_meeting_enhanced resumes: its driver calls raise when the browser is
\* gone; otherwise it goes on to _enable_captions, which swallows every error.
JoinMeeting ==
    /\ LoopFree
    /\ start_pc = "joining"
    /\ IF driver # "alive"
       THEN StartRaises
       ELSE start_pc' = "captions" /\ UNCHANGED <<status, error_message>>
    /\ UNCHANGED <<chunkVars, apiVars, should_stop, driver, seen_captions, stop_pc,
                   thread_pc, caption_buffer, elapsed, scans, backend_log, stop_mark, finalVars, poller, bot>>

\* One pass of the loop of _monitor_session (lines 635-650): the place start
\* is left at.
MonitorPass ==
    IF should_stop \/ driver # "alive" THEN "returned" ELSE "monitor"

\* The join flow has ended: the parsing thread is started, status becomes
\* "active" and the monitor loop is entered (lines 86-97).
StartActive ==
    /\ LoopFree
    /\ start_pc = "captions"
    /\ thread_pc' = "check"
    /\ status' = "active"
    /\ start_pc' = MonitorPass
    /\ UNCHANGED <<chunkVars, apiVars, error_message, should_stop, driver, seen_captions,
                   stop_pc, caption_buffer, elapsed, scans, backend_log, stop_mark, finalVars, poller, bot>>

\* The monitor wakes from its sleep.
MonitorSession ==
    /\ LoopFree
    /\ start_pc = "monitor"
    /\ MonitorPass = "returned"
    /\ start_pc' = "returned"
    /\ UNCHANGED <<chunkVars, apiVars, agentVars, stop_pc, thread_pc, caption_buffer,
                   elapsed, scans, backend_log, stop_mark, finalVars, poller, bot>>

\* The browser is closed or lost.
BrowserLost ==
    /\ driver = "alive"
    /\ driver' = "dead"
    /\ UNCHANGED <<chunkVars, apiVars, status, error_message, should_stop, seen_captions,
                   taskVars, backend_log, stop_mark, finalVars, poller, bot>>

\* ---------------------------------------- stop_agent and MeetingAgent.stop
\* stop has no suspension point: the event loop runs nothing else until it
\* returns, while the parsing thread goes on.
SessionKnown_Any(sid) == TRUE
\* The test `session_id not in active_sessions` of both handlers, negated.
SessionKnown(sid) == sid \in active_sessions

\* get_agent_status: 404 for an id that is not in the map, else the agent's
\* status.
GetAgentStatus(sid) ==
    /\ LoopFree
    /\ status_response' = IF SessionKnown(sid) THEN status ELSE "error404"
    /\ UNCHANGED <<chunkVars, active_sessions, start_response, stop_response, agentVars,
                   taskVars, backend_log, stop_mark, finalVars, poller, bot>>

StopAgent(sid) ==
    /\ LoopFree
    /\ IF ~SessionKnown(sid)
       THEN /\ stop_response' = "error500"
            /\ UNCHANGED <<should_stop, status, stop_pc, stop_mark>>
       ELSE /\ should_stop' = TRUE
            /\ status' = "stopping"
            /\ stop_pc' = "final"
            /\ stop_mark' = [buffer |-> caption_buffer, at |-> Len(backend_log)]
            /\ UNCHANGED stop_response
    /\ UNCHANGED <<chunkVars, active_sessions, start_response, status_response,
                   error_message, driver, seen_captions, start_pc, thread_pc,
                   caption_buffer, elapsed, scans, backend_log, finalVars, poller, bot>>

StopSendFinal_FailureAborts(ok) ==
    /\ stop_pc = "final"
    /\ backend_log' = SendFinalTranscript(backend_log, seen_captions, ok)
    /\ stop_pc' = IF ok THEN "quit" ELSE "idle"
    /\ UNCHANGED <<chunkVars, apiVars, agentVars, start_pc, thread_pc, caption_buffer,
                   elapsed, scans, stop_mark, finalVars, poller, bot>>
StopSendFinal(ok) ==
    /\ stop_pc = "final"
    /\ backend_log' = SendFinalTranscript(backend_log, seen_captions, ok)
    /\ stop_pc' = "quit"
    /\ UNCHANGED <<chunkVars, apiVars, agentVars, start_pc, thread_pc, caption_buffer,
                   elapsed, scans, stop_mark, finalVars, poller, bot>>

StopFinish_KeepsSession(sid) ==
    /\ stop_pc = "quit"
    /\ sid \in active_sessions
    /\ driver' = IF driver = "none" THEN "none" ELSE "dead"
    /\ status' = "stopped"
    /\ stop_response' = "stopped"
    /\ stop_pc' = "idle"
    /\ UNCHANGED <<chunkVars, active_sessions, start_response, status_response, error_message,
                   should_stop, seen_captions, start_pc, thread_pc, caption_buffer, elapsed,
                   scans, backend_log, stop_mark, finalVars, poller, bot>>
StopFinish(sid) ==
    /\ stop_pc = "quit"
    /\ sid \in active_sessions
    /\ driver' = IF driver = "none" THEN "none" ELSE "dead"
    /\ status' = "stopped"
    /\ active_sessions' = active_sessions \ {sid}
    /\ stop_response' = "stopped"
    /\ stop_pc' = "idle"
    /\ UNCHANGED <<chunkVars, start_response, status_response, error_message, should_stop,
                   seen_captions, start_pc, thread_pc, caption_buffer, elapsed, scans,
                   backend_log, stop_mark, finalVars, poller, bot>>

\* shutdown_event (main.py 749-761): every agent of the map is stopped and the
\* map is cleared. Neither the handler nor MeetingAgent.stop has a suspension
\* point, so the event loop runs it in one piece; ok is the outcome of the
\* final-transcript request.
ShutdownEvent(ok) ==
    /\ LoopFree
    /\ active_sessions # {}
    /\ should_stop' = TRUE
    /\ stop_mark' = [buffer |-> caption_buffer, at |-> Len(backend_log)]
    /\ backend_log' = SendFinalTranscript(backend_log, seen_captions, ok)
    /\ driver' = IF driver = "none" THEN "none" ELSE "dead"
    /\ status' = "stopped"
    /\ active_sessions' = {}
    /\ UNCHANGED <<chunkVars, start_response, stop_response, status_response, error_message,
                   seen_captions, taskVars, finalVars, poller, bot>>

\* ------------------------------------------------------ _run_visual_parsing
\* The loop test of line 370; delta is the time that passed since the last one.
VisualCheck(delta) ==
    /\ thread_pc = "check"
    /\ IF should_stop
       THEN thread_pc' = "drain" /\ UNCHANGED <<elapsed, scans>>
       ELSE /\ scans < MaxScans
            /\ thread_pc' = "scan"
            /\ elapsed' = Min(elapsed + delta, T_CHUNK)
            /\ scans' = scans + 1
    /\ UNCHANGED <<chunkVars, apiVars, agentVars, start_pc, stop_pc, caption_buffer,
                   backend_log, stop_mark, finalVars, poller, bot>>

FlushDue_TimeOnly(buffer, waited) == waited >= T_CHUNK
FlushDue(buffer, waited) == waited >= T_CHUNK \/ Len(buffer) >= N_CHUNK

\* One pass of the loop body, lines 372-398.
VisualScan(screen, ok) ==
    /\ thread_pc = "scan"
    /\ LET r == ParseCurrentCaptions(screen, seen_captions, driver)
           buffer == caption_buffer \o r.new_captions
       IN /\ seen_captions' = r.seen
          /\ IF FlushDue(buffer, elapsed) /\ buffer # <<>>
             THEN /\ backend_log' = SendCaptionsToBackend(backend_log, buffer, ok)
                  /\ caption_buffer' = <<>>
                  /\ elapsed' = 0
             ELSE /\ caption_buffer' = buffer
                  /\ UNCHANGED <<backend_log, elapsed>>
    /\ thread_pc' = "check"
    /\ UNCHANGED <<chunkVars, apiVars, status, error_message, should_stop, driver,
                   start_pc, stop_pc, scans, stop_mark, finalVars, poller, bot>>

\* Lines 406-411: what is left in the buffer is sent when the loop has ended.
VisualDrain(ok) ==
    /\ thread_pc = "drain"
    /\ backend_log' = SendCaptionsToBackend(backend_log, caption_buffer, ok)
    /\ thread_pc' = "exit"
    /\ UNCHANGED <<chunkVars, apiVars, agentVars, start_pc, stop_pc, caption_buffer,
                   elapsed, scans, stop_mark, finalVars, poller, bot>>

AgentNext ==
    \/ \E sid \in SessionIds, url \in MeetingUrls : StartAgent(sid, url)
    \/ \E driver_ok \in BOOLEAN, get_ok \in BOOLEAN : RunAgentSession(driver_ok, get_ok)
    \/ JoinMeeting
    \/ StartActive
    \/ MonitorSession
    \/ BrowserLost
    \/ \E sid \in SessionIds : StopAgent(sid)
    \/ \E ok \in BOOLEAN : StopSendFinal(ok)
    \/ \E sid \in SessionIds : StopFinish(sid)
    \/ \E ok \in BOOLEAN : ShutdownEvent(ok)
    \/ \E delta \in TickDeltas : VisualCheck(delta)
    \/ \E screen \in Screens, ok \in BOOLEAN : VisualScan(screen, ok)
    \/ \E ok \in BOOLEAN : VisualDrain(ok)

\* ================================================== bot.py: poll_agent_status
\* max_errors = 5 (line 184)
MAX_ERRORS == 5

\* The values MeetingAgent.status takes, which /agent_status reports.
AgentStatuses == {"initializing", "starting", "active", "stopping", "stopped", "error"}

\* The status tokens the poller answers to (lines 206-216).
StartingFamily == {"starting", "launching"}
WaitingFamily == {"waiting_admission", "waiting"}
JoinedFamily == {"joined", "in_call", "connected"}
ErrorFamily == {"error", "failed"}
StoppedFamily == {"stopped", "finished"}

\* Lines 204-216: the message shown for a status, "none" for an unknown one.
StatusText(st) ==
    IF st \in StartingFamily THEN "starting browser"
    ELSE IF st \in WaitingFamily THEN "waiting for admission"
    ELSE IF st \in JoinedFamily THEN "joined the call"
    ELSE IF st \in ErrorFamily THEN "agent error"
    ELSE IF st \in StoppedFamily THEN "agent finished"
    ELSE "none"

\* Line 216: the statuses at which the loop breaks.
BreaksLoop(st) == st \in StoppedFamily

TextChanged_Always(status_text, last_status_text) == TRUE

\* Line 224: if status_text != last_status_text
TextChanged(status_text, last_status_text) == status_text # last_status_text

\* Lines 180-184, before the task has run; the remaining fields are history:
\* fetches counts the get_json calls, fail_streak the failed ones in a row,
\* keyboards the stop keyboards shown, notices the connection-lost messages
\* sent, just_emitted the status text the last step emitted, last_emitted the
\* last status text whose emit call completed, ended how the loop ended,
\* cancelled_at the await at which a cancellation arrived.
IdlePoller ==
    [pc |-> "off", last_question_sent |-> "none", keyboard_sent |-> FALSE,
     last_status_text |-> "none", error_count |-> 0,
     status |-> "none", status_text |-> "none", question |-> "none",
     fetches |-> 0, fail_streak |-> 0, keyboards |-> 0, notices |-> 0,
     just_emitted |-> "none", last_emitted |-> "none", ended |-> "none",
     cancelled_at |-> "none", asked |-> <<>>]

\* The awaits of the loop at which the task can be suspended.
SuspensionPoints ==
    {"fetch", "edit", "send", "question", "keyboard", "sleep", "backoff", "notice"}

\* Line 190: the next get_json call is made.
IssueFetch(p) == [p EXCEPT !.pc = "fetch", !.fetches = @ + 1]

\* Lines 270-286: an exception reaches the handler of the loop.
Except(p) ==
    LET q == [p EXCEPT !.error_count = @ + 1] IN
    IF q.error_count >= MAX_ERRORS
    THEN [q EXCEPT !.pc = "notice", !.notices = @ + 1]
    ELSE [q EXCEPT !.pc = "backoff"]

\* Lines 252-265: the stop keyboard is due, or the pass ends with the sleep.
AfterQuestion(p) ==
    IF p.status \in JoinedFamily /\ ~p.keyboard_sent
    THEN [p EXCEPT !.pc = "keyboard"]
    ELSE [p EXCEPT !.pc = "sleep"]

\* Lines 244-251: a new question of the agent is due.
AfterStatus(p) ==
    IF p.question # "none" /\ p.question # p.last_question_sent
    THEN [p EXCEPT !.pc = "question"]
    ELSE AfterQuestion(p)

\* Lines 231 and 238: the emit call completed.
Emitted(p) ==
    AfterStatus([p EXCEPT !.last_status_text = p.status_text,
                          !.just_emitted = p.status_text,
                          !.last_emitted = p.status_text])

CancelledPoller_Marks(p) ==
    [p EXCEPT !.pc = "ended", !.ended = "cancelled", !.cancelled_at = p.pc,
              !.last_status_text = p.status_text]

\* Lines 267-269: CancelledError is caught and the loop left; raised inside
\* the exception handler it ends the task just the same.
CancelledPoller(p) ==
    [p EXCEPT !.pc = "ended", !.ended = "cancelled", !.cancelled_at = p.pc]

PollUnchanged ==
    UNCHANGED <<ai_configured, session_history, calls, apiVars, agentVars, taskVars,
                backend_log, stop_mark, finalVars, bot>>

\* Line 171: the task is created and runs up to its first get_json call.
PollStart ==
    /\ poller.pc = "off"
    /\ poller' = IssueFetch(poller)
    /\ PollUnchanged

\* Lines 190-221: get_json returns or raises. The locals status, status_text
\* and data belong to one pass; a pass that assigns none of them has none.
FetchReturn(outcome) ==
    /\ poller.pc = "fetch"
    /\ LET p == [poller EXCEPT !.just_emitted = "none", !.status = "none",
                               !.status_text = "none", !.question = "none"] IN
       poller' =
         IF outcome.kind = "raise"
         THEN Except([p EXCEPT !.fail_streak = @ + 1])
         ELSE LET q == [p EXCEPT !.error_count = 0, !.fail_streak = 0] IN
              IF outcome.kind = "non200" THEN [q EXCEPT !.pc = "sleep"]
              ELSE LET r == [q EXCEPT !.status = outcome.status,
                                      !.question = outcome.question,
                                      !.status_text = StatusText(outcome.status)]
                   IN IF BreaksLoop(r.status) THEN [r EXCEPT !.pc = "ended", !.ended = "stopped"]
                      ELSE IF r.status_text = "none" THEN [r EXCEPT !.pc = "sleep"]
                      ELSE IF TextChanged(r.status_text, r.last_status_text)
                      THEN [r EXCEPT !.pc = "edit"]
                      ELSE AfterStatus(r)
    /\ PollUnchanged

\* Lines 225-235: edit_message_text returns or raises.
EditReturn(ok) ==
    /\ poller.pc = "edit"
    /\ poller' = IF ok THEN Emitted(poller) ELSE [poller EXCEPT !.pc = "send"]
    /\ PollUnchanged

\* Lines 236-240: the send_message sent in place of the edit returns or raises.
SendReturn(ok) ==
    /\ poller.pc = "send"
    /\ poller' = IF ok THEN Emitted(poller) ELSE AfterStatus(poller)
    /\ PollUnchanged

\* Lines 245-250: the question message returns or raises.
QuestionReturn(ok) ==
    /\ poller.pc = "question"
    /\ LET p == [poller EXCEPT !.just_emitted = "none"] IN
       poller' = IF ok THEN AfterQuestion([p EXCEPT !.last_question_sent = p.question,
                                                    !.asked = Append(@, p.question)])
                 ELSE Except(p)
    /\ PollUnchanged

\* Lines 254-264: the keyboard message returns or raises.
KeyboardReturn(ok) ==
    /\ poller.pc = "keyboard"
    /\ LET p == [poller EXCEPT !.just_emitted = "none"] IN
       poller' = IF ok THEN [p EXCEPT !.keyboard_sent = TRUE, !.keyboards = @ + 1,
                                      !.pc = "sleep"]
                 ELSE Except(p)
    /\ PollUnchanged

\* Lines 198, 220, 265 and 286: a sleep is over and the loop goes round.
SleepReturn ==
    /\ poller.pc \in {"sleep", "backoff"}
    /\ poller.fetches < MaxPolls
    /\ poller' = IssueFetch([poller EXCEPT !.just_emitted = "none"])
    /\ PollUnchanged

\* Lines 277-284: the connection-lost message returns or raises; the loop ends.
NoticeReturn(ok) ==
    /\ poller.pc = "notice"
    /\ poller' = [poller EXCEPT !.pc = "ended", !.ended = "lost", !.just_emitted = "none"]
    /\ PollUnchanged

\* poll_task.cancel() (lines 304-309) reaches the task at one of its awaits.
CancelPoll ==
    /\ poller.pc \in SuspensionPoints
    /\ poller' = CancelledPoller([poller EXCEPT !.just_emitted = "none"])
    /\ PollUnchanged

\* What a status fetch can bring.
FetchedStatuses == AgentStatuses \cup {"joined"}
FetchedQuestions == {"none", "q1", "q2"}
FetchOutcomes ==
    [kind : {"ok"}, status : FetchedStatuses, question : FetchedQuestions] \cup
    [kind : {"raise", "non200"}, status : {"none"}, question : {"none"}]

PollNext ==
    \/ PollStart
    \/ \E o \in FetchOutcomes : FetchReturn(o)
    \/ \E ok \in BOOLEAN : EditReturn(ok)
    \/ \E ok \in BOOLEAN : SendReturn(ok)
    \/ \E ok \in BOOLEAN : QuestionReturn(ok)
    \/ \E ok \in BOOLEAN : KeyboardReturn(ok)
    \/ SleepReturn
    \/ \E ok \in BOOLEAN : NoticeReturn(ok)
    \/ CancelPoll

\* ------------------------------- bot.py: the poll loop against the backend
\* The session whose status the task polls (session_id, line 189).
PolledId == "s1"

\* receive_meet_link creates the task once /start_agent accepted the meeting
\* (lines 147-171).
PollStartAccepted ==
    /\ SessionKnown(PolledId)
    /\ PollStart

\* Line 190 answered by get_agent_status of main.py: 404 for an id that is
\* not in active_sessions, else 200 with the agent's status.
BackendAnswer ==
    IF SessionKnown(PolledId)
    THEN [kind |-> "ok", status |-> status, question |-> "none"]
    ELSE [kind |-> "non200", status |-> "none", question |-> "none"]

BackendFetchReturn ==
    /\ LoopFree
    /\ FetchReturn(BackendAnswer)

\* Lines 196-199 for a session the backend no longer has: sleep 5 and go
\* round again. The history counter fetches stops counting at MaxPolls.
GoneSleepReturn ==
    /\ poller.pc = "sleep"
    /\ ~SessionKnown(PolledId)
    /\ poller' = [poller EXCEPT !.pc = "fetch", !.just_emitted = "none",
                                !.fetches = Min(@ + 1, MaxPolls)]
    /\ PollUnchanged

\* The steps of a poll task that nothing cancels and whose requests are all
\* answered: MeetingAgent.status is never one of the joined tokens, so the
\* keyboard is never due, and no call raises.
PollSteps ==
    \/ BackendFetchReturn
    \/ \E ok \in BOOLEAN : EditReturn(ok)
    \/ \E ok \in BOOLEAN : SendReturn(ok)
    \/ SleepReturn
    \/ GoneSleepReturn

\* The session endpoints of main.py, the agent's start task and one poll
\* task of the bot that is never cancelled.
PollGoneNext ==
    \/ \E sid \in SessionIds, url \in MeetingUrls : StartAgent(sid, url)
    \/ \E driver_ok \in BOOLEAN, get_ok \in BOOLEAN : RunAgentSession(driver_ok, get_ok)
    \/ JoinMeeting
    \/ StartActive
    \/ \E sid \in SessionIds : StopAgent(sid)
    \/ \E ok \in BOOLEAN : StopSendFinal(ok)
    \/ \E sid \in SessionIds : StopFinish(sid)
    \/ PollStartAccepted
    \/ PollSteps

\* ------------------------------------------- bot.py: sessions and poll tasks
\* One user of the bot. entry is the number of the meeting whose session
\* entry is in active_sessions (0: no entry), poll_ref the task its
\* 'poll_task' key refers to (0: None or no key); task n is the poll task
\* created for meeting n; buttons tells whether a summary message with the
\* Jira and cancel buttons is in the chat.
IdleBot ==
    [fsm |-> "none", entry |-> 0, poll_ref |-> 0, started |-> 0,
     tasks |-> [t \in 1..MaxMeetings |-> "none"], buttons |-> FALSE]

BotUnchanged ==
    UNCHANGED <<ai_configured, session_history, calls, apiVars, agentVars, taskVars,
                backend_log, stop_mark, finalVars, poller>>

\* task.cancel(): the request is noted; a finished task is not affected.
CancelTask(tasks, t) ==
    IF t # 0 /\ tasks[t] = "running" THEN [tasks EXCEPT ![t] = "cancelled"] ELSE tasks

\* cmd_start (lines 85-108)
CmdStart ==
    /\ bot' = IF bot.entry # 0
              THEN [bot EXCEPT !.fsm = "none", !.tasks = CancelTask(@, bot.poll_ref),
                               !.entry = 0, !.poll_ref = 0]
              ELSE [bot EXCEPT !.fsm = "none"]
    /\ BotUnchanged

\* on_start_meeting (lines 110-115)
OnStartMeeting ==
    /\ bot' = [bot EXCEPT !.fsm = "waiting"]
    /\ BotUnchanged

\* receive_meet_link (lines 117-176): the link is refused, the backend call
\* fails, or the session entry is stored and the poll task created.
ReceiveMeetLink(outcome) ==
    /\ bot.fsm = "waiting"
    /\ IF outcome = "invalid" THEN bot' = bot
       ELSE IF outcome = "backend_error" THEN bot' = [bot EXCEPT !.fsm = "none"]
       ELSE /\ bot.started < MaxMeetings
            /\ LET n == bot.started + 1 IN
               bot' = [bot EXCEPT !.fsm = "meeting", !.started = n, !.entry = n,
                                  !.poll_ref = n, !.tasks[n] = "running"]
    /\ BotUnchanged

\* The end of poll_agent_status (lines 288-290), reached by a break of the
\* loop, also the one taken on CancelledError.
PollTaskEnds(t) ==
    /\ bot.tasks[t] \in {"running", "cancelled"}
    /\ bot' = [bot EXCEPT !.tasks[t] = "ended",
                          !.poll_ref = IF bot.entry # 0 THEN 0 ELSE @]
    /\ BotUnchanged

\* stop_meeting (lines 292-375); ok is the outcome of the stop_agent call.
StopMeeting(ok) ==
    /\ bot' = IF bot.entry = 0 THEN [bot EXCEPT !.fsm = "none"]
              ELSE IF ok
              THEN [bot EXCEPT !.fsm = "none", !.tasks = CancelTask(@, bot.poll_ref),
                               !.buttons = TRUE]
              ELSE [bot EXCEPT !.fsm = "none", !.tasks = CancelTask(@, bot.poll_ref),
                               !.entry = 0, !.poll_ref = 0]
    /\ BotUnchanged

\* on_create_jira (lines 429-431) and on_cancel (lines 444-445)
RemoveEntry ==
    /\ bot.buttons
    /\ bot.entry # 0
    /\ bot' = [bot EXCEPT !.entry = 0, !.poll_ref = 0]
    /\ BotUnchanged

BotNext ==
    \/ CmdStart
    \/ OnStartMeeting
    \/ \E outcome \in {"invalid", "backend_error", "accepted"} : ReceiveMeetLink(outcome)
    \/ \E t \in 1..MaxMeetings : PollTaskEnds(t)
    \/ \E ok \in BOOLEAN : StopMeeting(ok)
    \/ RemoveEntry

\* ===================================================== main.py: finalize
\* Tokens of a summarize response. Header words are transliterated.
H_PARTICIPANTS == "UCHASTNIKI"
H_DECISIONS == "KLYUCHEVYE_RESHENIYA"
H_DECISIONS_SP == "KLYUCHEVYE RESHENIYA"
H_ACTIONS == "ZADACHI_I_DEYSTVIYA"
H_ACTIONS_SP == "ZADACHI I DEYSTVIYA"
H_QUESTIONS == "VOPROSY_OBSUZHDENNYE"
H_QUESTIONS_SP == "VOPROSY OBSUZHDENNYE"
H_SUMMARY == "OBSHCHAYA_SVODKA"
H_SUMMARY_SP == "OBSHCHAYA SVODKA"

HeaderTokens ==
    {H_PARTICIPANTS, H_DECISIONS, H_DECISIONS_SP, H_ACTIONS, H_ACTIONS_SP,
     H_QUESTIONS, H_QUESTIONS_SP, H_SUMMARY, H_SUMMARY_SP}

\* str.upper() on a token: the lower-case spelling of a header becomes the header.
Upper(tok) == IF tok = "uchastniki" THEN H_PARTICIPANTS ELSE tok

\* Character lengths of the tokens, as far as the parser tells them apart.
OneCharTokens == {"x", ":", ",", ";", "[", "]", "*", "-"}
TwoCharTokens == {"ok", "**"}
TokLen(tok) == IF tok \in OneCharTokens THEN 1 ELSE IF tok \in TwoCharTokens THEN 2 ELSE 3

RECURSIVE StrLen(_)
StrLen(text) ==
    IF text = <<>> THEN 0
    ELSE IF Len(text) = 1 THEN TokLen(text[1])
    ELSE TokLen(Head(text)) + 1 + StrLen(Tail(text))

RECURSIVE Without(_, _)
Without(text, tokens) ==
    IF text = <<>> THEN <<>>
    ELSE IF Head(text) \in tokens THEN Without(Tail(text), tokens)
    ELSE <<Head(text)>> \o Without(Tail(text), tokens)

\* .replace('**', '').replace('*', '')
StripMarkup(text) == Without(text, {"**", "*"})

\* line.upper().replace('**', '').replace('*', '') (line 351)
LineUpper(line) == LET t == StripMarkup(line) IN [i \in 1..Len(t) |-> Upper(t[i])]

StartsWith(text, prefix) ==
    Len(text) >= Len(prefix) /\ SubSeq(text, 1, Len(prefix)) = prefix

\* line.split(':', 1)[1].strip() if ':' in line else ''
AfterColon(line) ==
    LET colon == FirstIndex(line, {":"}, 1) IN
    IF colon = 0 THEN <<>> ELSE SubSeq(line, colon + 1, Len(line))

\* text.split(sep), each part stripped.
RECURSIVE SplitOn(_, _, _)
SplitOn(text, seps, part) ==
    IF text = <<>> THEN <<part>>
    ELSE IF Head(text) \in seps THEN <<part>> \o SplitOn(Tail(text), seps, <<>>)
    ELSE SplitOn(Tail(text), seps, Append(part, Head(text)))

RECURSIVE KeepLongerThan(_, _)
KeepLongerThan(parts, n) ==
    IF parts = <<>> THEN <<>>
    ELSE IF Head(parts) # <<>> /\ StrLen(Head(parts)) > n
    THEN <<Head(parts)>> \o KeepLongerThan(Tail(parts), n)
    ELSE KeepLongerThan(Tail(parts), n)

\* Position of the first occurrence of pattern in a line, 0 when there is none.
RECURSIVE FindInLine(_, _, _)
FindInLine(line, pattern, i) ==
    IF i + Len(pattern) - 1 > Len(line) THEN 0
    ELSE IF SubSeq(line, i, i + Len(pattern) - 1) = pattern THEN i
    ELSE FindInLine(line, pattern, i + 1)

\* raw_response[raw_response.find(pattern):], the text unchanged when the
\* pattern does not occur.
RECURSIVE CutFrom(_, _)
CutFrom(lines, pattern) ==
    IF lines = <<>> THEN <<>>
    ELSE LET at == FindInLine(Head(lines), pattern, 1) IN
         IF at > 0 THEN <<SubSeq(Head(lines), at, Len(Head(lines)))>> \o Tail(lines)
         ELSE CutFrom(Tail(lines), pattern)

Contains(lines, pattern) ==
    \E k \in 1..Len(lines) : FindInLine(lines[k], pattern, 1) > 0

MarkedParticipants == <<"**", H_PARTICIPANTS, ":", "**">>
PlainParticipants == <<H_PARTICIPANTS, ":">>

\* Lines 314-326: the structured part of the raw response.
ExtractStructured(raw_response) ==
    IF Contains(raw_response, MarkedParticipants)
    THEN LET cut == CutFrom(raw_response, MarkedParticipants) IN
         [k \in 1..Len(cut) |-> Without(cut[k], {"**"})]
    ELSE IF Contains(raw_response, PlainParticipants)
    THEN CutFrom(raw_response, PlainParticipants)
    ELSE raw_response

EmptyParts ==
    [participants |-> <<>>, key_decisions |-> <<>>, action_items |-> <<>>,
     questions_asked |-> <<>>, summary_text |-> <<>>]

InitialSection_Decisions == "key_decisions"

\* current_section = None (line 342)
InitialSection == "none"

ListSections == {"participants", "key_decisions", "action_items", "questions_asked"}

\* The header tests of lines 353-375, in their order.
SectionOfLine(line) ==
    LET up == LineUpper(line) IN
    IF StartsWith(up, <<H_PARTICIPANTS, ":">>) \/ StartsWith(line, <<H_PARTICIPANTS, ":">>)
    THEN "participants"
    ELSE IF StartsWith(up, <<H_DECISIONS, ":">>) \/ StartsWith(up, <<H_DECISIONS_SP, ":">>)
    THEN "key_decisions"
    ELSE IF StartsWith(up, <<H_ACTIONS, ":">>) \/ StartsWith(up, <<H_ACTIONS_SP, ":">>)
    THEN "action_items"
    ELSE IF StartsWith(up, <<H_QUESTIONS, ":">>) \/ StartsWith(up, <<H_QUESTIONS_SP, ":">>)
    THEN "questions_asked"
    ELSE IF StartsWith(up, <<H_SUMMARY, ":">>) \/ StartsWith(up, <<H_SUMMARY_SP, ":">>)
    THEN "summary"
    ELSE "none"

\* Lines 356-364: the participants found in a participants header line.
ParticipantsLine(line, parts) ==
    LET text == Without(StripMarkup(AfterColon(line)), {"[", "]"}) IN
    IF text # <<>> /\ text \notin {<<"net">>, <<"otsutstvuyut">>}
    THEN [parts EXCEPT !.participants = KeepLongerThan(SplitOn(text, {",", ";"}, <<>>), 1)]
    ELSE parts

\* line.startswith('- ') or line.startswith('(bullet) ') on the stripped line.
IsBullet(line) == Len(line) >= 2 /\ Head(line) \in {"-", "(bullet)"}

BulletLine_AnyLength(line, section, parts) ==
    LET item == StripMarkup(Tail(line)) IN
    IF section \in ListSections /\ item # <<>>
    THEN [parts EXCEPT ![section] = Append(@, item)]
    ELSE parts
\* Lines 380-387: a bullet line.
BulletLine(line, section, parts) ==
    LET item == StripMarkup(Tail(line)) IN
    IF section \in ListSections /\ item # <<>> /\ StrLen(item) > 2
    THEN [parts EXCEPT ![section] = Append(@, item)]
    ELSE parts

ContinuesSummary_AnySection(line, section) ==
    Head(line) \notin {H_PARTICIPANTS, H_DECISIONS, H_DECISIONS_SP, H_ACTIONS,
                       H_ACTIONS_SP, H_QUESTIONS, H_QUESTIONS_SP}

\* Line 389: a line that is added to the free-text summary.
ContinuesSummary(line, section) ==
    /\ section = "summary"
    /\ Head(line) \notin {H_PARTICIPANTS, H_DECISIONS, H_DECISIONS_SP, H_ACTIONS,
                          H_ACTIONS_SP, H_QUESTIONS, H_QUESTIONS_SP}

\* Lines 345-390: the walk over the lines.
RECURSIVE ParseLines(_, _, _)
ParseLines(lines, section, parts) ==
    IF lines = <<>> THEN parts
    ELSE LET line == Head(lines)
             sec == SectionOfLine(line)
         IN  IF line = <<>> THEN ParseLines(Tail(lines), section, parts)
             ELSE IF sec = "participants"
             THEN ParseLines(Tail(lines), sec, ParticipantsLine(line, parts))
             ELSE IF sec = "summary"
             THEN ParseLines(Tail(lines), sec,
                             [parts EXCEPT !.summary_text = StripMarkup(AfterColon(line))])
             ELSE IF sec # "none"
             THEN ParseLines(Tail(lines), sec, parts)
             ELSE IF IsBullet(line)
             THEN ParseLines(Tail(lines), section, BulletLine(line, section, parts))
             ELSE IF ContinuesSummary(line, section)
             THEN ParseLines(Tail(lines), section,
                             [parts EXCEPT !.summary_text = @ \o line])
             ELSE ParseLines(Tail(lines), section, parts)

ParseSummary(raw_response) ==
    ParseLines(ExtractStructured(raw_response), InitialSection, EmptyParts)

\* list(session_data.get('participants', set())) (line 255)
RECURSIVE SetToSeq(_)
SetToSeq(set) ==
    IF set = {} THEN <<>>
    ELSE LET w == CHOOSE x \in set : TRUE IN <<(<<w>>)>> \o SetToSeq(set \ {w})

MINUTES_PER_CHUNK == 5

MeetingSummary_NoFallback(raw_response, session_data) ==
    LET parts == ParseSummary(raw_response) IN
    [participants |-> parts.participants,
     key_decisions |-> parts.key_decisions,
     action_items |-> parts.action_items,
     questions_asked |-> parts.questions_asked,
     meeting_duration |-> Len(session_data.chunks) * MINUTES_PER_CHUNK,
     summary_text |-> parts.summary_text]
\* Lines 392-410: the MeetingSummary built from the parsed response.
MeetingSummary(raw_response, session_data) ==
    LET parts == ParseSummary(raw_response) IN
    [participants |-> IF parts.participants # <<>> THEN parts.participants
                      ELSE SetToSeq(session_data.participants),
     key_decisions |-> parts.key_decisions,
     action_items |-> parts.action_items,
     questions_asked |-> parts.questions_asked,
     meeting_duration |-> Len(session_data.chunks) * MINUTES_PER_CHUNK,
     summary_text |-> parts.summary_text]

NoSummary == [absent |-> TRUE]

\* session_history.get(session_id, {...}) (lines 657-662)
SessionDataOf(hist, sid) == IF hist[sid] = NoSession THEN NewSessionData ELSE hist[sid]

IdleFinal ==
    [pc |-> "idle", sid |-> "s1", transcript |-> <<>>, clean_failed |-> FALSE,
     cleaned |-> <<>>, summarize_kind |-> "none", raw_response |-> <<>>,
     success |-> FALSE, summary |-> NoSummary, notify_kind |-> "none",
     telegram_sent |-> FALSE]

FinalFailed_Succeeds(f, kind) ==
    [f EXCEPT !.pc = "done", !.summarize_kind = kind, !.success = TRUE,
              !.summary = NoSummary]

\* The failure answer of lines 689-694.
FinalFailed(f, kind) ==
    [f EXCEPT !.pc = "done", !.summarize_kind = kind, !.success = FALSE,
              !.summary = NoSummary]

FinalSucceed_NoMark(f, sent) ==
    /\ final' = [f EXCEPT !.pc = "done", !.success = TRUE, !.telegram_sent = sent]
    /\ UNCHANGED session_history

\* Lines 675-687: the session is marked and the success answer returned.
FinalSucceed(f, sent) ==
    /\ final' = [f EXCEPT !.pc = "done", !.success = TRUE, !.telegram_sent = sent]
    /\ session_history' =
           IF session_history[f.sid] # NoSession
           THEN [session_history EXCEPT ![f.sid].status = "completed",
                                        ![f.sid].completed_at = TRUE]
           ELSE session_history

\* The request arrives (lines 654-667). With the service not configured the
\* clean call returns the text at once and generate_meeting_summary raises.
FinalStart(sid, transcript) ==
    /\ final.pc = "idle"
    /\ LET f == [final EXCEPT !.sid = sid, !.transcript = transcript] IN
       IF ai_configured
       THEN final' = [f EXCEPT !.pc = "clean"]
       ELSE final' = FinalFailed([f EXCEPT !.clean_failed = TRUE, !.cleaned = transcript],
                                   "not_configured")
    /\ UNCHANGED <<poller, bot, ai_configured, session_history, calls, apiVars, agentVars, taskVars,
                   backend_log, stop_mark, telegram_token, telegram_posts>>

\* The clean call returns and the summarize request is sent (lines 667-303).
FinalCleaned(outcome) ==
    /\ final.pc = "clean"
    /\ final' = [final EXCEPT !.pc = "summarize", !.clean_failed = (outcome.kind # "ok"),
                   !.cleaned = clean_text_with_openrouter_result(final.transcript, outcome)]
    /\ UNCHANGED <<poller, bot, ai_configured, session_history, calls, apiVars, agentVars, taskVars,
                   backend_log, stop_mark, telegram_token, telegram_posts>>

\* The summarize call returns (lines 303-415), and on success the notification
\* is sent or, without a token, skipped (lines 419-452).
FinalSummarized(outcome) ==
    /\ final.pc = "summarize"
    /\ IF outcome.kind # "ok"
       THEN /\ final' = FinalFailed(final, outcome.kind)
            /\ UNCHANGED <<session_history, telegram_posts>>
       ELSE LET f == [final EXCEPT
                         !.summarize_kind = "ok", !.raw_response = outcome.content,
                         !.summary = MeetingSummary(outcome.content,
                                        SessionDataOf(session_history, final.sid))]
            IN IF telegram_token
               THEN /\ final' = [f EXCEPT !.pc = "notify"]
                    /\ telegram_posts' = telegram_posts + 1
                    /\ UNCHANGED session_history
               ELSE /\ FinalSucceed([f EXCEPT !.notify_kind = "no_token"], FALSE)
                    /\ UNCHANGED telegram_posts
    /\ UNCHANGED <<poller, bot, ai_configured, calls, apiVars, agentVars, taskVars, backend_log,
                   stop_mark, telegram_token>>

\* The sendMessage call returns (lines 454-463).
FinalNotified(kind) ==
    /\ final.pc = "notify"
    /\ FinalSucceed([final EXCEPT !.notify_kind = kind], kind = "ok")
    /\ UNCHANGED <<poller, bot, ai_configured, calls, apiVars, agentVars, taskVars, backend_log,
                   stop_mark, telegram_token, telegram_posts>>

\* ------------------------------------------------- summarize response domain
ResponseLines ==
    { <<"all", "**", "good", "**">>,
      <<H_PARTICIPANTS, ":", "Ann", ",", "x">>,
      <<H_PARTICIPANTS, ":", "net">>,
      <<H_DECISIONS, ":">>,
      <<H_ACTIONS, ":">>,
      <<H_QUESTIONS, ":">>,
      <<H_SUMMARY, ":", "done">>,
      <<"-", "**", "plan", "**">>,
      <<"-", "ok">> }

RECURSIVE SeqsUpTo(_, _)
SeqsUpTo(set, n) ==
    IF n = 0 THEN { <<>> }
    ELSE LET shorter == SeqsUpTo(set, n - 1) IN
         shorter \cup { Append(q, x) : q \in { r \in shorter : Len(r) = n - 1 }, x \in set }

\* A header line with its header wrapped in emphasis marks: **HEADER:** rest.
EmphasizeLine(line) ==
    IF Len(line) >= 2 /\ line[1] \in HeaderTokens /\ line[2] = ":"
    THEN <<"**", line[1], ":", "**">> \o SubSeq(line, 3, Len(line))
    ELSE line

Emphasize(response) == [k \in 1..Len(response) |-> EmphasizeLine(response[k])]

PlainResponses == SeqsUpTo(ResponseLines, MaxLines)
Responses == PlainResponses \cup { Emphasize(r) : r \in PlainResponses }

SummarizeOutcomes ==
    [kind : {"ok"}, content : Responses] \cup
    [kind : {"http_error", "exception"}, content : {<<>>}]

FinalTranscripts == { <<"hi">> }
\* The clean service answers the final transcript with one text, or fails.
FinalCleanOutcomes == { o \in CleanOutcomes : o.kind = "ok" => o.content = <<"ok">> }

\* A session as process_transcript_chunk leaves it after one chunk.
SessionAfterChunk ==
    [chunks |-> << [timestamp |-> 1, original |-> <<"[t]", "Bob", ":", "hi">>,
                    cleaned |-> <<"Bob", ":", "hi">>] >>,
     questions_asked |-> 0, participants |-> {"Bob"}, status |-> "none",
     completed_at |-> FALSE]

FinalInit ==
    /\ ai_configured \in BOOLEAN
    /\ telegram_token \in BOOLEAN
    /\ session_history \in [SessionIds -> {NoSession, SessionAfterChunk}]
    /\ calls = [c \in CallIds |-> IdleCall]
    /\ active_sessions = {}
    /\ start_response = "none"
    /\ stop_response = "none"
    /\ status_response = "none"
    /\ status = "none"
    /\ error_message = "none"
    /\ should_stop = FALSE
    /\ driver = "none"
    /\ seen_captions = {}
    /\ start_pc = "none"
    /\ stop_pc = "idle"
    /\ thread_pc = "none"
    /\ caption_buffer = <<>>
    /\ elapsed = 0
    /\ scans = 0
    /\ backend_log = <<>>
    /\ stop_mark = [buffer |-> <<>>, at |-> 0]
    /\ final = IdleFinal
    /\ telegram_posts = 0
    /\ poller = IdlePoller
    /\ bot = IdleBot

FinalNext ==
    \/ \E sid \in SessionIds, t \in FinalTranscripts : FinalStart(sid, t)
    \/ \E o \in FinalCleanOutcomes : FinalCleaned(o)
    \/ final.pc = "summarize" /\ \E o \in SummarizeOutcomes : FinalSummarized(o)
    \/ \E kind \in {"ok", "http_error", "exception"} : FinalNotified(kind)

FinalSpec == FinalInit /\ [][FinalNext]_vars

NoCallInFlight == \A c \in CallIds : calls[c].pc \in {"idle", "done"}

Init ==
    /\ ai_configured \in BOOLEAN
    /\ session_history = [s \in SessionIds |-> NoSession]
    /\ calls = [c \in CallIds |-> IdleCall]
    /\ active_sessions = {}
    /\ start_response = "none"
    /\ stop_response = "none"
    /\ status_response = "none"
    /\ status = "none"
    /\ error_message = "none"
    /\ should_stop = FALSE
    /\ driver = "none"
    /\ seen_captions = {}
    /\ start_pc = "none"
    /\ stop_pc = "idle"
    /\ thread_pc = "none"
    /\ caption_buffer = <<>>
    /\ elapsed = 0
    /\ scans = 0
    /\ backend_log = <<>>
    /\ stop_mark = [buffer |-> <<>>, at |-> 0]
    /\ final = IdleFinal
    /\ telegram_token = FALSE
    /\ telegram_posts = 0
    /\ poller = IdlePoller
    /\ bot = IdleBot

\* The inputs of the overlapping requests: one chunk text, and a clean service
\* that answers with one text or fails.
OverlapTexts == { <<"[t]", "Ann", ":", "hi">> }
OverlapCleanOutcomes == { o \in CleanOutcomes : o.kind = "ok" => o.content = <<"Ann", ":", "hi">> }

Next ==
    \/ \E sid \in SessionIds, url \in MeetingUrls : StartAgent(sid, url)
    \/ \E c \in CallIds, sid \in SessionIds, text \in OverlapTexts : ProcessChunkStart(c, sid, text)
    \/ \E c \in CallIds, o \in OverlapCleanOutcomes : ProcessChunkCleaned(c, o)
    \/ \E c \in CallIds, o \in GateOutcomes : ProcessChunkGated(c, o)

Spec == Init /\ [][Next]_vars

\* The same handler with the requests delivered one after another.
SeqNext ==
    \/ \E sid \in SessionIds, url \in MeetingUrls : StartAgent(sid, url)
    \/ \E c \in CallIds, sid \in SessionIds, text \in ChunkTexts :
          NoCallInFlight /\ ProcessChunkStart(c, sid, text)
    \/ \E c \in CallIds, o \in CleanOutcomes : ProcessChunkCleaned(c, o)
    \/ \E c \in CallIds, o \in GateOutcomes : ProcessChunkGated(c, o)

SeqSpec == Init /\ [][SeqNext]_vars

AgentSpec == Init /\ [][AgentNext]_vars

\* MeetingAgent.stop has no suspension point (lines 105-126): once entered
\* it runs to its end.
LiveScreens == { <<>>, << <<E_hi>> >> }

AgentLiveNext ==
    \/ \E sid \in SessionIds, url \in MeetingUrls : StartAgent(sid, url)
    \/ \E driver_ok \in BOOLEAN, get_ok \in BOOLEAN : RunAgentSession(driver_ok, get_ok)
    \/ JoinMeeting
    \/ StartActive
    \/ MonitorSession
    \/ BrowserLost
    \/ \E sid \in SessionIds : StopAgent(sid)
    \/ \E ok \in BOOLEAN : StopSendFinal(ok)
    \/ \E sid \in SessionIds : StopFinish(sid)
    \/ \E delta \in TickDeltas : VisualCheck(delta)
    \/ \E screen \in LiveScreens, ok \in BOOLEAN : VisualScan(screen, ok)
    \/ \E ok \in BOOLEAN : VisualDrain(ok)

AgentLiveSpec ==
    /\ Init /\ [][AgentLiveNext]_vars
    /\ WF_vars(\E ok \in BOOLEAN : StopSendFinal(ok))
    /\ WF_vars(\E sid \in SessionIds : StopFinish(sid))

\* The session endpoints of main.py with the agent's start task, requests
\* carrying known and unknown ids.
ApiNext ==
    \/ \E sid \in SessionIds, url \in MeetingUrls : StartAgent(sid, url)
    \/ \E driver_ok \in BOOLEAN, get_ok \in BOOLEAN : RunAgentSession(driver_ok, get_ok)
    \/ JoinMeeting
    \/ StartActive
    \/ MonitorSession
    \/ BrowserLost
    \/ \E sid \in RequestIds : GetAgentStatus(sid)
    \/ \E sid \in RequestIds : StopAgent(sid)
    \/ \E ok \in BOOLEAN : StopSendFinal(ok)
    \/ \E sid \in SessionIds : StopFinish(sid)

ApiSpec == Init /\ [][ApiNext]_vars

BotSpec == Init /\ [][BotNext]_vars

PollSpec == Init /\ [][PollNext]_vars

\* The poll task keeps running: a sleep ends, a request is answered.
PollGoneSpec == Init /\ [][PollGoneNext]_vars /\ WF_vars(PollSteps)

\* ==================================================================== claims
Known(s) == session_history[s] # NoSession

\* C1: with the calls delivered one after another, questions_asked of every
\* session is at most 2 in every reachable state, whatever the gate answers.
C1_QuotaSequential ==
    \A s \in SessionIds : Known(s) => session_history[s].questions_asked <= 2

\* C1 witness: three calls were served in turn, the first two asked a question
\* and the third was answered with the quota used up.
C1_Witness ==
    /\ \A c \in 1..3 : calls[c].pc = "done"
    /\ calls[1].action = "ask_question" /\ calls[2].action = "ask_question"
    /\ calls[3].action = "continue"
    /\ session_history["s1"].questions_asked = 2

\* C2: with overlapping calls on one session (several suspended in the clean
\* or gate call at once) no interleaving lets questions_asked exceed the quota.
C2_QuotaOverlapping ==
    \A c \in CallIds :
        calls[c].pc # "idle" => session_history[calls[c].sid].questions_asked <= QUESTION_QUOTA

\* The caption texts of all chunks sent so far, in order.
RECURSIVE EmittedTexts(_)
EmittedTexts(log) ==
    IF log = <<>> THEN <<>>
    ELSE LET e == Head(log) IN
         [i \in 1..Len(e.captions) |-> e.captions[i].text] \o EmittedTexts(Tail(log))

\* C3: over a whole session no text value is put into the emitted chunks more
\* than once.
C3_NoDuplicateEmission ==
    LET texts == EmittedTexts(backend_log) IN
    \A i \in 1..Len(texts), j \in 1..Len(texts) : i # j => texts[i] # texts[j]

StatusRank(st) ==
    CASE st = "none" -> 0
      [] st = "initializing" -> 1
      [] st = "starting" -> 2
      [] st = "active" -> 3
      [] st = "stopping" -> 4
      [] st = "stopped" -> 5
      [] OTHER -> 6

Terminal == {"stopped", "error"}

\* C4: every change of status moves forward along initializing, starting,
\* active, stopping, stopped, or goes to error from a non-terminal state; a
\* terminal status never changes again.
C4_StatusMonotonic ==
    [][status' # status =>
          /\ status \notin Terminal
          /\ status' = "error" \/ StatusRank(status') > StatusRank(status)]_vars

\* C5: a stop command for a session that is already terminal changes no
\* session state, sends nothing, and answers with the terminal state.
C5_StopOnTerminalIsNoop ==
    [][(/\ stop_pc = "idle"
        /\ status \in Terminal
        /\ <<stop_pc, stop_response>>' # <<stop_pc, stop_response>>)
       => /\ UNCHANGED <<agentVars, active_sessions, backend_log, stop_pc>>
          /\ stop_response' = status]_vars

IsPrefix(a, b) == Len(a) <= Len(b) /\ SubSeq(b, 1, Len(a)) = a

\* C6: when stop is issued with a non-empty pending buffer, the chunk built
\* from that buffer is sent to the chunk endpoint before the final-transcript
\* request goes out.
C6_FlushBeforeFinal ==
    \A k \in 1..Len(backend_log) :
        (backend_log[k].kind = "final" /\ k > stop_mark.at /\ stop_mark.buffer # <<>>)
        => \E j \in (stop_mark.at + 1)..(k - 1) :
               /\ backend_log[j].kind = "chunk"
               /\ IsPrefix(stop_mark.buffer, backend_log[j].captions)

\* The finalize call has returned after a successful summarize call.
SummarizedOk == final.pc = "done" /\ final.summarize_kind = "ok"

SummaryFields ==
    {"participants", "key_decisions", "action_items", "questions_asked",
     "meeting_duration", "summary_text"}

\* No line of the response is a header of the section.
Absent(response, section) ==
    \A k \in 1..Len(response) : response[k] = <<>> \/ SectionOfLine(response[k]) # section

\* The participants collected while the chunks of the session were processed.
Accumulated == SetToSeq(SessionDataOf(session_history, final.sid).participants)

\* C7: after a successful summarize call finalize answers success with a
\* summary that has every field, whatever the response text; a list section
\* absent from the response is an empty list, an absent summary section an
\* empty text, and absent participants are the accumulated participants.
C7_AllFieldsPresent ==
    SummarizedOk =>
        /\ final.success
        /\ final.summary # NoSummary
        /\ DOMAIN final.summary = SummaryFields
        /\ \A sec \in {"key_decisions", "action_items", "questions_asked"} :
               Absent(final.raw_response, sec) => final.summary[sec] = <<>>
        /\ Absent(final.raw_response, "summary") => final.summary.summary_text = <<>>
        /\ Absent(final.raw_response, "participants")
               => final.summary.participants = Accumulated

\* C7 witness: a response with a summary section but neither participants
\* nor decisions, for a session that accumulated participants.
C7_Witness ==
    /\ SummarizedOk
    /\ Absent(final.raw_response, "participants")
    /\ Absent(final.raw_response, "key_decisions")
    /\ ~Absent(final.raw_response, "summary")
    /\ Accumulated # <<>>

\* C7 as stated: every section absent from the response, participants
\* included, is an empty list in the summary.
C7_AbsentIsEmpty ==
    SummarizedOk =>
        /\ final.success
        /\ final.summary # NoSummary
        /\ \A sec \in {"participants", "key_decisions", "action_items", "questions_asked"} :
               Absent(final.raw_response, sec) => final.summary[sec] = <<>>

NoHeader(response) ==
    \A k \in 1..Len(response) : response[k] = <<>> \/ SectionOfLine(response[k]) = "none"

\* The lines of a text joined into one text.
RECURSIVE JoinLines(_)
JoinLines(lines) == IF lines = <<>> THEN <<>> ELSE Head(lines) \o JoinLines(Tail(lines))

\* C8: for a response without any section header finalize answers success
\* with empty key_decisions, action_items and questions_asked, the
\* accumulated participants, and an empty summary_text.
C8_HeaderlessIsEmpty ==
    (SummarizedOk /\ NoHeader(final.raw_response)) =>
        /\ final.success
        /\ final.summary.key_decisions = <<>>
        /\ final.summary.action_items = <<>>
        /\ final.summary.questions_asked = <<>>
        /\ final.summary.participants = Accumulated
        /\ final.summary.summary_text = <<>>

\* C8 witness: a headerless, non-empty response was summarized for a session
\* with accumulated participants.
C8_Witness ==
    /\ SummarizedOk
    /\ NoHeader(final.raw_response)
    /\ final.raw_response # <<>>
    /\ Accumulated # <<>>

\* C8 as stated: for a headerless response all lists are empty and
\* summary_text is the full response text.
C8_HeaderlessIsFullText ==
    (SummarizedOk /\ NoHeader(final.raw_response)) =>
        /\ final.success
        /\ final.summary.participants = <<>>
        /\ final.summary.key_decisions = <<>>
        /\ final.summary.action_items = <<>>
        /\ final.summary.questions_asked = <<>>
        /\ final.summary.summary_text = JoinLines(final.raw_response)

\* The header line **HEADER:** rest with its emphasis marks taken off.
UnmarkLine(line) ==
    IF Len(line) >= 4 /\ line[1] = "**" /\ line[2] \in HeaderTokens
       /\ line[3] = ":" /\ line[4] = "**"
    THEN <<line[2], ":">> \o SubSeq(line, 5, Len(line))
    ELSE line

Unmark(response) == [k \in 1..Len(response) |-> UnmarkLine(response[k])]

\* C9: a response with its section headers wrapped in emphasis marks gives
\* the same participants, key_decisions, action_items, questions_asked and
\* summary_text as the same content with unmarked headers.
C9_MarkupInvariant ==
    SummarizedOk =>
        LET unmarked == MeetingSummary(Unmark(final.raw_response),
                                       SessionDataOf(session_history, final.sid))
        IN \A field \in {"participants", "key_decisions", "action_items",
                          "questions_asked", "summary_text"} :
               final.summary[field] = unmarked[field]

SummarizeFailed == final.summarize_kind \in {"not_configured", "http_error", "exception"}

\* C10: when the summarize call fails (not configured, non-200 answer or
\* exception) finalize answers failure without a summary, sends no
\* notification and does not mark the session completed; when only the clean
\* call failed, finalize still succeeds with a summary.
C10_SummarizeFailureIsFatal ==
    final.pc = "done" =>
        /\ SummarizeFailed =>
               /\ ~final.success
               /\ final.summary = NoSummary
               /\ telegram_posts = 0
               /\ Known(final.sid) => session_history[final.sid].status # "completed"
        /\ (final.clean_failed /\ final.summarize_kind = "ok") =>
               final.success /\ final.summary # NoSummary

\* C10 witness: the clean call succeeded, the summarize call got a non-200
\* answer, for a known session with a notification token configured.
C10_Witness ==
    /\ final.pc = "done"
    /\ ~final.clean_failed
    /\ final.summarize_kind = "http_error"
    /\ telegram_token
    /\ Known(final.sid)

\* The hand-over of the summary to the notification channel did not succeed.
DeliveryFailed == final.notify_kind \in {"no_token", "http_error", "exception"}

\* C11: when the delivery of the summary fails (no token, non-200 answer or
\* exception) finalize answers success with the summary and telegram_sent
\* false, and a known session is marked completed with a completion time.
C11_DeliveryFailureNotFatal ==
    (final.pc = "done" /\ DeliveryFailed) =>
        /\ final.success
        /\ final.summary # NoSummary
        /\ final.summary = MeetingSummary(final.raw_response,
                                          SessionDataOf(session_history, final.sid))
        /\ ~final.telegram_sent
        /\ Known(final.sid) =>
               /\ session_history[final.sid].status = "completed"
               /\ session_history[final.sid].completed_at

\* C11 witness: the sendMessage request of a known session was answered with
\* a non-200 status and finalize has returned.
C11_Witness ==
    /\ final.pc = "done"
    /\ final.notify_kind = "http_error"
    /\ telegram_posts = 1
    /\ Known(final.sid)

\* C12: in every run of the poller, whatever statuses are fetched and
\* whichever edit and send calls fail, a status message whose emit call
\* completes differs from the message emitted before it.
C12_NoRepeatedStatus ==
    [][poller'.just_emitted # "none" => poller'.just_emitted # poller.last_emitted]_vars

\* C12 witness: a status with the text emitted last was fetched again and
\* the pass went to its sleep without emitting.
C12_Witness ==
    /\ poller.pc = "sleep"
    /\ poller.fetches >= 2
    /\ poller.status_text # "none"
    /\ poller.status_text = poller.last_emitted
    /\ poller.just_emitted = "none"

\* The statuses of an agent that is in the call: the joined family of the
\* poller and the value MeetingAgent.start reports.
InCallStatuses == JoinedFamily \cup {"active"}

\* C13: the stop keyboard is never shown twice, and it has been shown once
\* when a pass over a fetched status of the joined/active family, "active"
\* included, has run through to its sleep.
C13_KeyboardOnce ==
    /\ poller.keyboards <= 1
    /\ (poller.pc = "sleep" /\ poller.status \in InCallStatuses) => poller.keyboards = 1

\* C14: the connection-lost notice is sent at most once, it is sent exactly
\* when 5 status fetches in a row have failed (a fetch that returns puts the
\* count back to 0), and after it the loop ends without another fetch.
C14_LostAfterFiveFetches ==
    /\ poller.notices <= 1
    /\ poller.notices = 1 <=> poller.fail_streak >= MAX_ERRORS
    /\ poller.notices = 1 => poller.pc \in {"notice", "ended"}
    /\ poller.ended = "lost" => poller.notices = 1

\* C15: once a fetched status is stopped or error, the loop makes no further
\* fetch and does not go to sleep for another pass.
C15_TerminalEndsLoop ==
    poller.status \in Terminal => poller.pc \notin {"fetch", "sleep", "backoff"}

\* C16: a cancellation that arrives at a suspension point ends the loop in
\* that step, with no fetch and no emission made by it or after it, and
\* last_status_text changes only in a step that completes an emit, to the
\* text emitted.
C16_CancelIsClean ==
    [][/\ (poller.ended = "none" /\ poller'.ended = "cancelled") =>
             /\ poller'.pc = "ended"
             /\ poller'.fetches = poller.fetches
             /\ poller'.just_emitted = "none"
             /\ poller'.last_status_text = poller.last_status_text
             /\ poller'.last_question_sent = poller.last_question_sent
             /\ poller'.keyboards = poller.keyboards
             /\ poller'.notices = poller.notices
       /\ poller.pc = "ended" => poller' = poller
       /\ poller'.last_status_text # poller.last_status_text =>
             poller'.just_emitted = poller'.last_status_text]_vars

\* C16 witness: the task was cancelled while the edit of a changed status
\* text was in flight, and the text was not recorded as emitted.
C16_Witness ==
    /\ poller.ended = "cancelled"
    /\ poller.cancelled_at = "edit"
    /\ poller.status_text # poller.last_status_text
    /\ poller.last_status_text = poller.last_emitted

Asked(s) == session_history[s].questions_asked

\* C17: a call that reaches the gate decision while questions_asked of its
\* session is 2 is answered continue without a question text, without the
\* gate service being called, and the counter stays 2.
C17_QuotaUsedUp ==
    [][\A c \in CallIds :
          (/\ calls[c].pc = "clean"
           /\ calls'[c].pc # "clean"
           /\ Asked(calls[c].sid) = 2)
          => /\ calls'[c].pc = "done"
             /\ calls'[c].action = "continue"
             /\ calls'[c].question_text = <<>>
             /\ session_history'[calls[c].sid].questions_asked = 2]_vars

\* C17 witness: the first two calls were answered with a question and a
\* later call was answered continue with the counter at 2.
C17_Witness ==
    \E c \in CallIds :
        /\ c > QUESTION_QUOTA
        /\ \A d \in 1..QUESTION_QUOTA : calls[d].action = "ask_question"
        /\ calls[c].pc = "done"
        /\ calls[c].action = "continue"
        /\ calls[c].question_text = <<>>
        /\ Asked(calls[c].sid) = QUESTION_QUOTA

\* The reply of the gate asks for a question: its last answer line says yes
\* and its last question line has a text.
PositiveReply(lines) ==
    /\ \E i \in 1..Len(lines) :
          /\ lines[i].head = "NEED" /\ lines[i].yes
          /\ \A j \in (i + 1)..Len(lines) : lines[j].head # "NEED"
    /\ \E i \in 1..Len(lines) :
          /\ lines[i].head = "Q" /\ lines[i].rest # <<>>
          /\ \A j \in (i + 1)..Len(lines) : lines[j].head # "Q"

GateGivesNoQuestion(outcome) == outcome.kind # "ok" \/ ~PositiveReply(outcome.content)

\* C18: when the gate service is not configured, answers with a non-200
\* status, raises, or answers with text that is no positive answer with a
\* question, the call is answered continue and questions_asked is unchanged.
C18_GateFailsSilent ==
    [][\A c \in CallIds :
          /\ (calls[c].pc = "idle" /\ calls'[c].pc # "idle" /\ ~ai_configured)
             => /\ calls'[c].pc = "done"
                /\ calls'[c].action = "continue"
                /\ session_history'[calls'[c].sid].questions_asked =
                      IF Known(calls'[c].sid) THEN Asked(calls'[c].sid) ELSE 0
          /\ \A o \in GateOutcomes :
                (GateGivesNoQuestion(o) /\ ProcessChunkGated(c, o))
                => /\ calls'[c].pc = "done"
                   /\ calls'[c].action = "continue"
                   /\ calls'[c].question_text = <<>>
                   /\ UNCHANGED session_history]_vars

\* C18 witness: with the service configured and the quota unused the gate was
\* called, gave no question, and the call was answered continue.
C18_Witness ==
    /\ ai_configured
    /\ calls[1].pc = "done"
    /\ calls[1].action = "continue"
    /\ calls[2].pc = "idle"
    /\ Asked(calls[1].sid) = 0

\* C19: when the clean call fails (service not configured, non-200 answer,
\* exception) the call still appends exactly one chunk, with cleaned equal to
\* the original text, and goes on to a decision.
C19_CleanFailureKeepsChunk ==
    [][\A c \in CallIds :
          LET before == IF Known(calls'[c].sid) THEN session_history[calls'[c].sid].chunks
                        ELSE <<>>
              after == session_history'[calls'[c].sid].chunks
              stored == /\ Len(after) = Len(before) + 1
                        /\ SubSeq(after, 1, Len(before)) = before
                        /\ after[Len(after)].original = calls'[c].text
                        /\ after[Len(after)].cleaned = calls'[c].text
          IN /\ (calls[c].pc = "idle" /\ calls'[c].pc # "idle" /\ ~ai_configured)
                => stored /\ calls'[c].pc = "done"
             /\ \A o \in CleanOutcomes :
                   (o.kind # "ok" /\ ProcessChunkCleaned(c, o))
                   => stored /\ calls'[c].pc \in {"gate", "done"}
             /\ calls'[c].pc = "done" => calls'[c].action \in {"continue", "ask_question"}]_vars

\* C19 witness: with the service configured a call has been answered whose
\* stored chunk has the original text as its cleaned text.
C19_Witness ==
    /\ ai_configured
    /\ calls[1].pc = "done"
    /\ Known(calls[1].sid)
    /\ Len(session_history[calls[1].sid].chunks) = 1
    /\ session_history[calls[1].sid].chunks[1].cleaned = calls[1].text

CaptionsOf(entry) == { entry.captions[i] : i \in 1..Len(entry.captions) }

\* A chunk request is added to the log by the step.
ChunkSent ==
    /\ Len(backend_log') = Len(backend_log) + 1
    /\ backend_log'[Len(backend_log')].kind = "chunk"

\* C20: when the delivery of a flushed chunk fails, the loop goes on with an
\* empty buffer and a restarted flush timer, as after a delivery, and no
\* caption of a failed chunk is sent again in a later chunk.
C20_FailedChunkDropped ==
    [][ChunkSent =>
          /\ (thread_pc = "scan" /\ ~backend_log'[Len(backend_log')].ok)
                => /\ caption_buffer' = <<>>
                   /\ elapsed' = 0
                   /\ thread_pc' = "check"
          /\ \A i \in 1..Len(backend_log) :
                (backend_log[i].kind = "chunk" /\ ~backend_log[i].ok)
                => CaptionsOf(backend_log[i])
                      \cap CaptionsOf(backend_log'[Len(backend_log')]) = {}]_vars

\* C21: on every pass of the capture loop a chunk is sent exactly when the
\* pending buffer is not empty and either T_CHUNK seconds have passed since the
\* last flush or the buffer holds N_CHUNK captions or more; a flush leaves the
\* buffer empty and restarts the timer; the loop sends a chunk at no other step.
C21_FlushRule ==
    [][/\ ChunkSent => thread_pc \in {"scan", "drain"}
       /\ (thread_pc = "scan" /\ thread_pc' = "check") =>
            LET pending == IF ChunkSent
                           THEN backend_log'[Len(backend_log')].captions
                           ELSE caption_buffer'
            IN /\ ChunkSent <=> /\ pending # <<>>
                                /\ elapsed >= T_CHUNK \/ Len(pending) >= N_CHUNK
               /\ ChunkSent => caption_buffer' = <<>> /\ elapsed' = 0]_vars

\* C21 witness: the loop is running and has flushed once because of the size
\* of the buffer and once because of the time, and a third pass with captions
\* pending has not flushed.
C21_Witness ==
    /\ thread_pc = "check"
    /\ ~should_stop
    /\ caption_buffer = <<>>
    /\ elapsed = 0
    /\ Len(backend_log) = 2
    /\ backend_log[1].kind = "chunk" /\ Len(backend_log[1].captions) >= N_CHUNK
    /\ backend_log[2].kind = "chunk" /\ Len(backend_log[2].captions) < N_CHUNK

\* C22: no chunk without captions is ever sent, neither by a pass of the loop
\* whose flush is due while nothing is pending nor by the drain of an empty
\* buffer, and no step removes an entry from seen_captions.
C22_EmptyFlushAndSeenGrows ==
    [][/\ seen_captions \subseteq seen_captions'
       /\ ChunkSent => backend_log'[Len(backend_log')].captions # <<>>
       /\ (thread_pc = "drain" /\ thread_pc' = "exit" /\ caption_buffer = <<>>)
            => backend_log' = backend_log]_vars

\* C22 witness: after a flush, a pass whose flush was due by the time found
\* nothing pending and sent nothing, and the seen set still holds the captions
\* of the flushed chunk.
C22_Witness ==
    /\ thread_pc = "check"
    /\ elapsed = T_CHUNK
    /\ caption_buffer = <<>>
    /\ Len(backend_log) = 1
    /\ backend_log[1].kind = "chunk"
    /\ \A i \in 1..Len(backend_log[1].captions) :
          backend_log[1].captions[i].text \in seen_captions

\* The part of C23 that is about the buffer: a chunk holds what was pending
\* before the step, in that order, followed by what the step recorded.
C23_ChunkKeepsOrder ==
    [][ChunkSent => IsPrefix(caption_buffer, backend_log'[Len(backend_log')].captions)]_vars

\* C23: a flushed chunk has one line per caption recorded since the previous
\* flush, in the order of recording, and a caption captured twice gives one
\* line: (A,"hi"), (A,"hi"), (B,"hello") flush as 2 lines.
C23_OneLinePerCaption ==
    [][ChunkSent =>
          LET chunk == backend_log'[Len(backend_log')]
              lines == TextChunk(chunk.captions)
          IN /\ IsPrefix(caption_buffer, chunk.captions)
             /\ Len(lines) = Cardinality(CaptionsOf(chunk))]_vars

\* The part of C24 that is about start and join: when start has raised, the
\* status is "error" and a message is set.
C24_StartFailureIsError ==
    [][start_pc' = "raised" /\ start_pc # "raised"
         => status' = "error" /\ error_message' # "none"]_vars

\* C24: when the caption source is unreachable or closed, during start and
\* join or while the monitor runs, the status becomes "error" and the
\* error_message is set. The monitor returning without a stop request is the
\* monitor having found the browser gone.
C24_SourceLostIsError ==
    [][/\ (start_pc' = "raised" /\ start_pc # "raised")
            => status' = "error" /\ error_message' # "none"
       /\ (start_pc' = "returned" /\ start_pc # "returned" /\ ~should_stop)
            => status' = "error" /\ error_message' # "none"]_vars

\* C25: get_agent_status and stop_agent called with an id that is not in the
\* active session map answer with an error and leave the active session map,
\* the session history and the agent's status as they were.
C25_UnknownIdIsError ==
    [][\A sid \in RequestIds :
          sid \notin active_sessions =>
             /\ GetAgentStatus(sid) =>
                   /\ status_response' = "error404"
                   /\ UNCHANGED <<active_sessions, session_history, status>>
             /\ StopAgent(sid) =>
                   /\ stop_response' \in {"error404", "error500"}
                   /\ UNCHANGED <<active_sessions, session_history, status>>]_vars

\* C25 witness: with an agent active, both handlers have answered a request
\* for an unknown id with an error.
C25_Witness ==
    /\ active_sessions = {"s1"}
    /\ status = "active"
    /\ status_response = "error404"
    /\ stop_response = "error500"

\* C26: sessions are independent: also while the stop of one session waits on
\* its final-transcript request or on the browser closing, a status request
\* for another session id can be served.
C26_OtherSessionsProgress ==
    \A sid \in UnknownIds : ENABLED GetAgentStatus(sid)

\* The part of C27 that is about appending: no step removes or changes a
\* stored chunk.
C27_ChunksAppendOnly ==
    [][\A s \in SessionIds :
          Known(s) => IsPrefix(session_history[s].chunks, session_history'[s].chunks)]_vars

\* C27: the chunks list of a session only grows at its end and holds the
\* chunks in the order in which the capture side flushed them (the order of
\* their requests), also when a later request starts while an earlier one is
\* waiting on the clean service.
C27_ChunksInFlushOrder ==
    [][\A s \in SessionIds :
          /\ Known(s) => IsPrefix(session_history[s].chunks, session_history'[s].chunks)
          /\ session_history'[s] # NoSession =>
                \A i, j \in 1..Len(session_history'[s].chunks) :
                   i < j => session_history'[s].chunks[i].timestamp
                              < session_history'[s].chunks[j].timestamp]_vars

\* The part of C28 that is about repetition: the question message is sent
\* only for a question that is not empty and differs from the last one sent,
\* so no question is sent twice in a row.
C28_QuestionNotRepeated ==
    /\ poller.pc = "question" =>
          poller.question # "none" /\ poller.question # poller.last_question_sent
    /\ \A i \in 1..(Len(poller.asked) - 1) : poller.asked[i] # poller.asked[i + 1]
    /\ poller.last_question_sent =
          IF poller.asked = <<>> THEN "none" ELSE poller.asked[Len(poller.asked)]

\* C28: a question is sent only when it is not empty and differs from the
\* last question sent, and a question that the polls keep bringing is shown
\* to the user exactly once: never twice in a row, and a poll that brought a
\* question has sent it by the time the loop sleeps unless it was the last
\* one sent.
C28_QuestionSurfacedOnce ==
    /\ poller.pc = "question" =>
          poller.question # "none" /\ poller.question # poller.last_question_sent
    /\ \A i \in 1..(Len(poller.asked) - 1) : poller.asked[i] # poller.asked[i + 1]
    /\ (poller.pc = "sleep" /\ poller.question # "none") =>
          poller.question = poller.last_question_sent

\* The participants of a summary, as a set of names.
SummaryParticipants ==
    { final.summary.participants[i] : i \in 1..Len(final.summary.participants) }

\* C29: when parsing the summarize response yields no participants, the
\* participants of the summary are exactly the participants accumulated for
\* the session while its chunks were processed; when parsing yields at least
\* one, the summary has the parsed ones and the accumulated set is not used.
C29_ParticipantsFallback ==
    SummarizedOk =>
        LET parsed == ParseSummary(final.raw_response).participants
            acc == SessionDataOf(session_history, final.sid).participants
        IN IF parsed = <<>>
           THEN /\ SummaryParticipants = { <<w>> : w \in acc }
                /\ Len(final.summary.participants) = Cardinality(acc)
           ELSE final.summary.participants = parsed

\* C29 witness: a response with a participants line that yields no name, for
\* a session that accumulated a participant, and the summary names him.
C29_Witness ==
    /\ SummarizedOk
    /\ ~Absent(final.raw_response, "participants")
    /\ ParseSummary(final.raw_response).participants = <<>>
    /\ final.summary.participants = << <<"Bob">> >>

\* C30: the step in which a process_transcript_chunk call answers raises
\* questions_asked of its session by one when the answer is ask_question,
\* which then carries a question text, and leaves it as it is when the answer
\* is continue; no other step changes the count.
C30_CountFollowsAnswer ==
    [][\A s \in SessionIds :
          LET before == IF Known(s) THEN Asked(s) ELSE 0
              after == IF session_history'[s] # NoSession
                       THEN session_history'[s].questions_asked ELSE 0
              answering == { c \in CallIds : /\ calls[c].pc # "done"
                                             /\ calls'[c].pc = "done"
                                             /\ calls'[c].sid = s }
              asking == { c \in answering : calls'[c].action = "ask_question" }
          IN /\ Cardinality(answering) <= 1
             /\ after = before + Cardinality(asking)
             /\ \A c \in answering : calls'[c].action \in {"ask_question", "continue"}
             /\ \A c \in asking : calls'[c].question_text # <<>>]_vars

\* C30 witness: the first call asked a question and the count is 1; the
\* second went through the gate, answered continue and left it at 1.
C30_Witness ==
    /\ ai_configured
    /\ calls[1].pc = "done" /\ calls[1].action = "ask_question"
    /\ calls[2].pc = "done" /\ calls[2].action = "continue"
    /\ calls[3].pc = "idle"
    /\ Known(calls[1].sid) /\ calls[2].sid = calls[1].sid
    /\ Asked(calls[1].sid) = 1

\* The cleaned texts of the chunks stored before the chunk of call c.
PrecedingCleaned(c) ==
    LET chunks == session_history[calls[c].sid].chunks
        own == CHOOSE i \in 1..Len(chunks) : chunks[i].timestamp = c
    IN [i \in 1..(own - 1) |-> chunks[i].cleaned]

\* C31: the context passed to the gate with a chunk is made of the last 3
\* cleaned chunks that precede the chunk in the session history; the chunk
\* itself is passed beside it as the current one.
C31_ContextIsThreePreceding ==
    \A c \in CallIds :
        calls[c].pc = "gate" =>
            calls[c].context = LastN(PrecedingCleaned(c), CONTEXT_CHUNKS)

\* What the code passes: the last 3 cleaned chunks of the history with the
\* current chunk already stored, so the current chunk and the two before it.
C31_ContextIncludesCurrent ==
    \A c \in CallIds :
        calls[c].pc = "gate" =>
            calls[c].context =
                LastN(Append(PrecedingCleaned(c), calls[c].cleaned), CONTEXT_CHUNKS)

\* The response from its first line that is a section header on.
RECURSIVE FromFirstHeader(_)
FromFirstHeader(lines) ==
    IF lines = <<>> THEN <<>>
    ELSE IF Head(lines) # <<>> /\ SectionOfLine(Head(lines)) # "none" THEN lines
    ELSE FromFirstHeader(Tail(lines))

\* The summary has the fields that parsing the given lines yields; emphasis
\* marks in the free text are left out of the comparison.
SummaryIsParseOf(lines) ==
    LET exp == ParseLines(lines, InitialSection, EmptyParts) IN
    /\ \A sec \in {"key_decisions", "action_items", "questions_asked"} :
          final.summary[sec] = exp[sec]
    /\ StripMarkup(final.summary.summary_text) = StripMarkup(exp.summary_text)
    /\ final.summary.participants =
          IF exp.participants # <<>> THEN exp.participants ELSE Accumulated

\* The part of C32 that holds: when the first header of the response is the
\* participants header, or the response has no participants header, the
\* summary is the parse of the response from its first header on.
C32_ParticipantsFirst ==
    (/\ SummarizedOk
     /\ LET rest == FromFirstHeader(final.raw_response) IN
        \/ rest # <<>> /\ SectionOfLine(Head(rest)) = "participants"
        \/ \A k \in 1..Len(rest) : SectionOfLine(rest[k]) # "participants")
    => SummaryIsParseOf(FromFirstHeader(final.raw_response))

\* C32: the parser starts at the first section header of the response,
\* whichever of the five it is: the text before it adds nothing to the
\* summary and every section from it on is parsed, also one that comes
\* before the participants header.
C32_ParsedFromFirstHeader ==
    SummarizedOk => SummaryIsParseOf(FromFirstHeader(final.raw_response))

\* The section the parser is in after the given lines: that of the last
\* header line among them.
RECURSIVE SectionAfter(_)
SectionAfter(lines) ==
    IF lines = <<>> THEN InitialSection
    ELSE LET last == lines[Len(lines)] IN
         IF last # <<>> /\ SectionOfLine(last) # "none" THEN SectionOfLine(last)
         ELSE SectionAfter(SubSeq(lines, 1, Len(lines) - 1))

\* For every bullet line of the parsed text: what the parser holds after the
\* line is what it held before it, with the stripped item appended to the
\* list of the current section when that section is one of sections and the
\* item is longer than 2 characters.
BulletsAppendIn(sections) ==
    LET lines == ExtractStructured(final.raw_response) IN
    \A k \in 1..Len(lines) :
        (lines[k] # <<>> /\ SectionOfLine(lines[k]) = "none" /\ IsBullet(lines[k])) =>
            LET before == ParseLines(SubSeq(lines, 1, k - 1), InitialSection, EmptyParts)
                after == ParseLines(SubSeq(lines, 1, k), InitialSection, EmptyParts)
                section == SectionAfter(SubSeq(lines, 1, k - 1))
                item == StripMarkup(Tail(lines[k]))
            IN after = IF section \in sections /\ StrLen(item) > 2
                       THEN [before EXCEPT ![section] = Append(@, item)]
                       ELSE before

\* C33 as amended: a bullet line appends its stripped item to the list of the
\* current section when that section is participants, key decisions, action
\* items or discussed questions and the item is longer than 2 characters; in
\* every other case, before any header and under the summary section
\* included, it changes nothing.
C33_BulletAppendsToListSection ==
    SummarizedOk =>
        BulletsAppendIn({"participants", "key_decisions", "action_items", "questions_asked"})

\* C33 witness: a bullet under the participants header gave the summary its
\* participant, and a bullet of 2 characters was dropped.
C33_Witness ==
    /\ SummarizedOk
    /\ final.raw_response =
          << <<H_PARTICIPANTS, ":", "net">>, <<"-", "**", "plan", "**">>, <<"-", "ok">> >>
    /\ final.summary.participants = << <<"plan">> >>

\* C33 as stated: only key decisions, action items and discussed questions
\* take bullet items.
C33_BulletOnlyInThreeSections ==
    SummarizedOk =>
        BulletsAppendIn({"key_decisions", "action_items", "questions_asked"})

\* C34: a stop command on a session of the active session map sets the
\* status to "stopping", and from "stopping" the status gets to "stopped",
\* also when the final-transcript request fails.
C34_StopReachesStopped ==
    /\ [][\A sid \in SessionIds :
            (sid \in active_sessions /\ StopAgent(sid)) => status' = "stopping"]_vars
    /\ [](status = "stopping" => <>(status = "stopped"))

\* C34 witness: the agent is stopped and its final-transcript request failed.
C34_Witness ==
    /\ status = "stopped"
    /\ stop_pc = "idle"
    /\ backend_log # <<>>
    /\ backend_log[Len(backend_log)].kind = "final"
    /\ ~backend_log[Len(backend_log)].ok

\* The caption texts of all chunks of the log.
ChunkTexts_Sent ==
    UNION { { backend_log[i].captions[j].text : j \in 1..Len(backend_log[i].captions) } :
            i \in { k \in 1..Len(backend_log) : backend_log[k].kind = "chunk" } }

\* The part of C35 that holds: the transcript is a set of texts of captions
\* the agent recorded, so it has each text once and nothing else.
C35_TranscriptIsSeen ==
    \A i \in 1..Len(backend_log) :
        backend_log[i].kind = "final" => backend_log[i].transcript \subseteq seen_captions

\* C35: when the session is over (stop has returned and the parsing thread
\* has ended), the full transcript that stop sent holds the text of every
\* caption that was placed in a chunk, delivered or not, and nothing else.
C35_TranscriptCoversChunks ==
    (stop_pc = "idle" /\ thread_pc = "exit") =>
        \A i \in 1..Len(backend_log) :
            backend_log[i].kind = "final" => backend_log[i].transcript = ChunkTexts_Sent

\* The final-transcript requests of the log.
FinalRequests == { i \in 1..Len(backend_log) : backend_log[i].kind = "final" }

\* C36: the capture side sends at most one final-transcript request for a
\* session, whatever stop_agent calls and shutdown are made and in whatever
\* order.
C36_AtMostOneFinal ==
    Cardinality(FinalRequests) <= 1

\* C36 witness: the transcript was sent, the agent is stopped, and a further
\* stop_agent call for the session was answered with an error.
C36_Witness ==
    /\ Cardinality(FinalRequests) = 1
    /\ status = "stopped"
    /\ stop_pc = "idle"
    /\ active_sessions = {}
    /\ stop_response = "error500"
    /\ stop_mark.at < Len(backend_log)

\* The poll tasks that run and have not been asked to stop.
RunningTasks(b) == { t \in 1..MaxMeetings : b.tasks[t] = "running" }

\* C37: at most one poll task of the user runs at any time; when the
\* session entry is replaced or removed its poll task has been cancelled; a
\* poll task that ends clears the poll_task reference only of the entry it
\* was started for.
C37_OnePollTask ==
    [][/\ Cardinality(RunningTasks(bot')) <= 1
       /\ (bot.entry # 0 /\ bot'.entry # bot.entry) => bot.entry \notin RunningTasks(bot')
       /\ \A t \in 1..MaxMeetings :
             (bot.tasks[t] # "ended" /\ bot'.tasks[t] = "ended" /\ bot.entry # t)
                => bot'.poll_ref = bot.poll_ref]_vars

\* The backend had the polled session and has it no more: every status
\* request for it is answered 404 from now on.
SessionGone == ~SessionKnown(PolledId) /\ session_history[PolledId] # NoSession

\* C38: once the backend has removed the polled session, so that the status
\* endpoint answers every request with a non-200 response, a poll task that
\* is never cancelled eventually ends.
C38_PollLoopTerminates ==
    (SessionGone /\ poller.pc \in SuspensionPoints) ~> (poller.pc = "ended")

\* What the claim calls a URL that begins with https://meet.google.com/.
BeginsWithMeetPrefix(url) ==
    Len(url) >= 3 /\ SubSeq(url, 1, 3) = <<"https://", "meet.google.com", "/">>

\* C39: start_agent with a meeting URL that does not begin with
\* https://meet.google.com/ reports an error and adds no entry to
\* active_sessions or session_history; an accepted start adds an entry under
\* the same new id to both maps, the history entry having questions_asked 0,
\* no chunks and no participants.
C39_StartValidatesUrl ==
    [][\A sid \in SessionIds, url \in MeetingUrls :
          StartAgent(sid, url) =>
             IF BeginsWithMeetPrefix(url)
             THEN /\ start_response' = "started"
                  /\ sid \notin active_sessions /\ session_history[sid] = NoSession
                  /\ active_sessions' = active_sessions \cup {sid}
                  /\ session_history'[sid] # NoSession
                  /\ session_history'[sid].questions_asked = 0
                  /\ session_history'[sid].chunks = <<>>
                  /\ session_history'[sid].participants = {}
                  /\ \A other \in DOMAIN session_history :
                        other # sid => session_history'[other] = session_history[other]
             ELSE /\ start_response' = "error500"
                  /\ active_sessions' = active_sessions
                  /\ session_history' = session_history]_vars

\* C39 witness: a start was refused and neither map has an entry.
C39_Witness ==
    /\ start_response = "error500"
    /\ active_sessions = {}
    /\ \A sid \in DOMAIN session_history : session_history[sid] = NoSession

====
